---- MODULE Spec2Model ----
(***************************************************************************)
(* Verification model of the Tesla dashcam viewer's telemetry pipeline:    *)
(*   - TelemetryDecoder (js/telemetry-decoder.js): buildIndex and the       *)
(*     nearest-timestamp query service,                                     *)
(*   - DashcamMP4 (lib/dashcam-mp4.js): findBox and stripEmulationBytes,    *)
(*   - TeslaDashcamApp / MP4Parser / mp4-worker: file selection, parse      *)
(*     generations, FileReader completions and worker messages.             *)
(*                                                                         *)
(* Six specifications share the variables:                                 *)
(*   SpecDecoder  buildIndex / getTelemetryAtTime on bounded inputs         *)
(*   SpecStrip    stripEmulationBytes on every bounded byte sequence        *)
(*   SpecBox      findBox on bounded buffers and windows                    *)
(*   SpecDecodeSei  decodeSei on every bounded unit                         *)
(*   SpecScan     parseFrames and extractSeiMessages on bounded files       *)
(*   Spec         the application's interleavings                           *)
(***************************************************************************)
EXTENDS Integers, Sequences, FiniteSets, TLC

VARIABLES
    \* ---- TelemetryDecoder (telemetry-decoder.js:27-31)
    telemetryIndex,   \* this.telemetryIndex: a Map, as its entries in insertion order
    frameRate,        \* this.frameRate
    duration,         \* this.duration
    builds,           \* 0 before the first buildIndex call, then 1, 2, 1, 2, ...
    lastBuild,        \* the last buildIndex call: its arguments and return value
    lastQuery,        \* the last query call: its argument and return value
    \* ---- stripEmulationBytes harness
    stripData,        \* the byte sequence given to stripEmulationBytes
    stripOnce,        \* stripEmulationBytes(stripData)
    stripTwice,       \* stripEmulationBytes(stripEmulationBytes(stripData))
    stripPc,          \* "idle" | "in" | "once" | "twice"
    \* ---- DashcamMP4 (dashcam-mp4.js constructor) and one findBox call
    buffer,           \* this.buffer / this.view: the file's bytes
    fbStart,          \* findBox argument start
    fbEnd,            \* findBox argument end
    fbName,           \* findBox argument name
    fbPos,            \* the loop variable pos
    fbState,          \* "idle" | "scan" | "found" | "notfound" | "rangeerror"
    fbResult,         \* the returned {start, end, size}
    fbRawSize,        \* the 32-bit size field of the box that was returned
    \* ---- TeslaDashcamApp (app.js), MP4Parser (mp4-parser.js), the page
    parseGeneration,  \* app._parseGeneration
    currentFile,      \* app.currentFile: the selected file, or "none"
    telemetryData,    \* app.telemetryData: the stored parse result, or null
    parserWorker,     \* mp4Parser.worker: the call whose Worker it holds, 0 for null
    protobufLoaded,   \* mp4Parser.SeiMetadata is set
    workerApi,        \* typeof Worker !== 'undefined' in this browser
    video,            \* the video element: src, load state, videoPlayer.duration
    calls,            \* the handleFileSelected calls so far, with the FileReader
                      \* and Worker each created
    ui,               \* loading indicator, progress bar, status text, dialogs
    \* ---- one parseFrames / extractSeiMessages / decodeSei call of DashcamMP4
    scanCall,         \* the call: its operation, its SeiMetadata argument, how far it is
    cursor,           \* the loop variable cursor
    scanEnd,          \* the local end = mdat.offset + mdat.size
    messages,         \* the local messages of extractSeiMessages
    frames,           \* the local frames of parseFrames
    pendingSei,       \* the local pendingSei of parseFrames
    currentSps,       \* the local currentSps of parseFrames
    currentPps,       \* the local currentPps of parseFrames
    cachedConfig,     \* this._config
    lastDecode        \* the last direct decodeSei call: its arguments and return value

decVars   == <<telemetryIndex, frameRate, duration, builds, lastBuild, lastQuery>>
stripVars == <<stripData, stripOnce, stripTwice, stripPc>>
boxVars   == <<buffer, fbStart, fbEnd, fbName, fbPos, fbState, fbResult, fbRawSize>>
appVars   == <<parseGeneration, currentFile, telemetryData, parserWorker,
               protobufLoaded, workerApi, video, calls, ui>>
scanVars  == <<scanCall, cursor, scanEnd, messages, frames, pendingSei,
               currentSps, currentPps, cachedConfig, lastDecode>>
vars      == <<decVars, stripVars, boxVars, appVars, scanVars>>

-----------------------------------------------------------------------------
(* Bounds of the model *)

MaxRecords == 2      \* longest seiMessages list given to buildIndex
MaxStripLen == 6     \* longest byte sequence given to stripEmulationBytes
MaxBoxes == 2        \* most top-level boxes in a generated buffer
MaxUnits == 3        \* units in the media data of a scanned file
MaxNalLen == 6       \* bytes after the 3-byte preamble of a unit given to decodeSei

-----------------------------------------------------------------------------
(* JavaScript values.  A number is an exact rational n/d, or Infinity, or   *)
(* NaN; undefined, null and booleans are values of the same shape so that   *)
(* `a || b || c` chains can be evaluated as the code evaluates them.        *)

RECURSIVE GCD(_, _)
GCD(a, b) == IF b = 0 THEN a ELSE GCD(b, a % b)

Abs(x) == IF x < 0 THEN -x ELSE x

Fin(n, d) ==
    LET g == GCD(Abs(n), d)
    IN  [k |-> "fin", n |-> n \div g, d |-> d \div g]

Num(n)    == Fin(n, 1)
Infinity  == [k |-> "inf", n |-> 1, d |-> 1]
NaN       == [k |-> "nan", n |-> 0, d |-> 1]
Undefined == [k |-> "undef", n |-> 0, d |-> 1]
Null      == [k |-> "null", n |-> 0, d |-> 1]
Bool(b)   == [k |-> "bool", n |-> IF b THEN 1 ELSE 0, d |-> 1]

\* ToBoolean: undefined, null, NaN, 0 and false are falsy
Truthy(x) ==
    \/ x.k = "inf"
    \/ x.k \in {"fin", "bool"} /\ x.n # 0

\* a || b
Or(a, b) == IF Truthy(a) THEN a ELSE b

\* a + b on non-negative numbers (Array.reduce((a, b) => a + b, 0))
NumAdd(a, b) ==
    IF a.k = "nan" \/ b.k = "nan" THEN NaN
    ELSE IF a.k = "inf" \/ b.k = "inf" THEN Infinity
    ELSE Fin(a.n * b.d + b.n * a.d, a.d * b.d)

\* a * b on non-negative numbers
NumMul(a, b) ==
    IF a.k = "nan" \/ b.k = "nan" THEN NaN
    ELSE IF a.k = "inf" \/ b.k = "inf"
         THEN (IF (a.k = "fin" /\ a.n = 0) \/ (b.k = "fin" /\ b.n = 0)
               THEN NaN ELSE Infinity)
    ELSE Fin(a.n * b.n, a.d * b.d)

\* a / b on non-negative numbers: x/0 is Infinity, 0/0 is NaN, x/Infinity is 0
NumDiv(a, b) ==
    IF a.k = "nan" \/ b.k = "nan" THEN NaN
    ELSE IF a.k = "inf" THEN (IF b.k = "inf" THEN NaN ELSE Infinity)
    ELSE IF b.k = "inf" THEN Num(0)
    ELSE IF b.n = 0 THEN (IF a.n = 0 THEN NaN ELSE Infinity)
    ELSE Fin(a.n * b.d, a.d * b.n)

\* Math.abs(a - b); a is non-negative or Infinity or NaN, b is finite
NumAbsDiff(a, b) ==
    IF a.k = "nan" \/ b.k = "nan" THEN NaN
    ELSE IF a.k = "inf" /\ b.k = "inf" THEN NaN
    ELSE IF a.k = "inf" \/ b.k = "inf" THEN Infinity
    ELSE Fin(Abs(a.n * b.d - b.n * a.d), a.d * b.d)

\* a < b; every comparison with NaN is false
NumLess(a, b) ==
    IF a.k = "nan" \/ b.k = "nan" THEN FALSE
    ELSE IF a.k = "inf" THEN FALSE
    ELSE IF b.k = "inf" THEN TRUE
    ELSE a.n * b.d < b.n * a.d

\* seiData.<name>: undefined when the decoded message has no such property
Field(obj, name) == IF name \in DOMAIN obj THEN obj[name] ELSE Undefined

-----------------------------------------------------------------------------
(* TelemetryDecoder *)

MPS_TO_MPH == Fin(223694, 100000)
MPS_TO_KPH == Fin(36, 10)
DefaultFrameRate == 30
EarlyExitDiff == Fin(16, 1000)

\* AUTOPILOT_STATES[state] || 'OFF'
AutopilotName(state) ==
    IF state = Num(1) THEN "FSD"
    ELSE IF state = Num(2) THEN "AUTOSTEER"
    ELSE IF state = Num(3) THEN "TACC"
    ELSE "OFF"

\* GEAR_STATES[state] || 'P'
GearName(state) ==
    IF state = Num(1) THEN "D"
    ELSE IF state = Num(2) THEN "R"
    ELSE IF state = Num(3) THEN "N"
    ELSE "P"

\* decodeSEIMessage(seiData, index)
decodeSEIMessage(seiData, index) ==
    LET speedMps    == Or(Or(Field(seiData, "vehicleSpeedMps"), Field(seiData, "vehicle_speed_mps")), Num(0))
        steering    == Or(Or(Field(seiData, "steeringWheelAngle"), Field(seiData, "steering_wheel_angle")), Num(0))
        accelerator == NumMul(Or(Or(Field(seiData, "acceleratorPedalPosition"), Field(seiData, "accelerator_pedal_position")), Num(0)), Num(100))
        brake       == Or(Or(Field(seiData, "brakeApplied"), Field(seiData, "brake_applied")), Bool(FALSE))
        leftSignal  == Or(Or(Field(seiData, "blinkerOnLeft"), Field(seiData, "blinker_on_left")), Bool(FALSE))
        rightSignal == Or(Or(Field(seiData, "blinkerOnRight"), Field(seiData, "blinker_on_right")), Bool(FALSE))
        apState     == Or(Or(Field(seiData, "autopilotState"), Field(seiData, "autopilot_state")), Num(0))
        gearState   == Or(Or(Field(seiData, "gearState"), Field(seiData, "gear_state")), Num(0))
        latitude    == Or(Or(Field(seiData, "latitudeDeg"), Field(seiData, "latitude_deg")), Null)
        longitude   == Or(Or(Field(seiData, "longitudeDeg"), Field(seiData, "longitude_deg")), Null)
        heading     == Or(Or(Field(seiData, "headingDeg"), Field(seiData, "heading_deg")), Null)
        accelX      == Or(Or(Field(seiData, "linearAccelerationMps2X"), Field(seiData, "linear_acceleration_mps2_x")), Num(0))
        accelY      == Or(Or(Field(seiData, "linearAccelerationMps2Y"), Field(seiData, "linear_acceleration_mps2_y")), Num(0))
        accelZ      == Or(Or(Field(seiData, "linearAccelerationMps2Z"), Field(seiData, "linear_acceleration_mps2_z")), Num(0))
        frameSeqNo  == Or(Or(Field(seiData, "frameSeqNo"), Field(seiData, "frame_seq_no")), Num(index))
    IN  [ speed         |-> [mps |-> speedMps,
                             mph |-> NumMul(speedMps, MPS_TO_MPH),
                             kph |-> NumMul(speedMps, MPS_TO_KPH)],
          steeringAngle |-> steering,
          accelerator   |-> accelerator,
          brake         |-> brake,
          turnSignals   |-> [left |-> leftSignal, right |-> rightSignal],
          autopilot     |-> [state |-> apState, name |-> AutopilotName(apState),
                             isActive |-> apState # Num(0)],
          gear          |-> [state |-> gearState, name |-> GearName(gearState)],
          gps           |-> [latitude |-> latitude, longitude |-> longitude,
                             heading |-> heading,
                             isValid |-> latitude # Null /\ longitude # Null],
          acceleration  |-> [x |-> accelX, y |-> accelY, z |-> accelZ],
          frameSeqNo    |-> frameSeqNo,
          raw           |-> seiData ]

\* Map.prototype.set: an existing key keeps its place and takes the new value
MapSet(m, key, value) ==
    IF \E j \in 1..Len(m) : m[j].key = key
    THEN [j \in 1..Len(m) |-> IF m[j].key = key
                              THEN [key |-> key, value |-> value] ELSE m[j]]
    ELSE Append(m, [key |-> key, value |-> value])

\* Map.prototype.get
MapGet(m, key) ==
    LET j == CHOOSE j \in 1..Len(m) : m[j].key = key IN m[j].value

\* durations.reduce((a, b) => a + b, 0)
RECURSIVE SumDurations(_, _)
SumDurations(durations, acc) ==
    IF durations = <<>> THEN acc
    ELSE SumDurations(Tail(durations), NumAdd(acc, Head(durations)))

\* buildIndex lines 46-50: the frame rate after the call
FrameRateFor(videoConfig, oldRate) ==
    IF ~videoConfig.isNull /\ videoConfig.hasDurations /\ Len(videoConfig.durations) > 0
    THEN LET avgFrameDuration ==
                 NumDiv(SumDurations(videoConfig.durations, Num(0)),
                        Num(Len(videoConfig.durations)))
         IN  IF NumLess(Num(0), avgFrameDuration)
             THEN NumDiv(Num(1000), avgFrameDuration)
             ELSE Num(DefaultFrameRate)
    ELSE oldRate

\* buildIndex line 70: seiData.frameSeqNo || seiData.frame_seq_no || i
FrameNumber(seiData, i) ==
    Or(Or(Field(seiData, "frameSeqNo"), Field(seiData, "frame_seq_no")), Num(i))

\* buildIndex lines 62-75: the loop from position i (0-based) on
RECURSIVE BuildLoop(_, _, _, _)
BuildLoop(index, seiMessages, i, rate) ==
    IF i >= Len(seiMessages) THEN index
    ELSE LET seiData   == seiMessages[i + 1]
             telemetry == decodeSEIMessage(seiData, i)
             timestamp == NumDiv(FrameNumber(seiData, i), rate)
         IN  BuildLoop(MapSet(index, timestamp, telemetry), seiMessages, i + 1, rate)

\* buildIndex without the clear() of line 44: the loop adds to the old entries
BuildIndexMap_NoClear(oldIndex, seiMessages, videoConfig, oldRate) ==
    BuildLoop(oldIndex, seiMessages, 0, FrameRateFor(videoConfig, oldRate))

\* buildIndex(seiMessages, videoConfig, duration): the index after the call.
\* this.telemetryIndex.clear() empties the map before the loop.
BuildIndexMap(oldIndex, seiMessages, videoConfig, oldRate) ==
    BuildLoop(<<>>, seiMessages, 0, FrameRateFor(videoConfig, oldRate))

\* getTelemetryAtTime lines 200-214: scan the keys from position j on
RECURSIVE ClosestScan(_, _, _, _, _)
ClosestScan(index, j, time, closestTime, minDiff) ==
    IF j > Len(index) THEN closestTime
    ELSE LET timestamp == index[j].key
             diff      == NumAbsDiff(timestamp, time)
             better    == NumLess(diff, minDiff)
             closest2  == IF better THEN timestamp ELSE closestTime
             minDiff2  == IF better THEN diff ELSE minDiff
         IN  IF NumLess(diff, EarlyExitDiff)
             THEN closest2
             ELSE ClosestScan(index, j + 1, time, closest2, minDiff2)

\* getTelemetryAtTime(time): the record returned, or NoRecord for null
NoRecord == [isNull |-> TRUE]
getTelemetryAtTime(index, time) ==
    LET closestTime == ClosestScan(index, 1, time, Null, Infinity)
    IN  IF closestTime # Null
        THEN [isNull |-> FALSE, key |-> closestTime, data |-> MapGet(index, closestTime)]
        ELSE NoRecord

\* hasTelemetry()
hasTelemetry(index) == Len(index) > 0

\* getAllTelemetry(): one new object {timestamp, ...data} per entry, in index order
getAllTelemetry(index) ==
    [ j \in 1..Len(index) |->
        [ f \in (DOMAIN index[j].value) \cup {"timestamp"} |->
            IF f = "timestamp" THEN index[j].key ELSE index[j].value[f] ] ]

\* getStatistics(): null (NoRecord) on an empty index, else the summary object
getStatistics(index, dur, rate) ==
    IF ~hasTelemetry(index) THEN NoRecord
    ELSE LET allData == getAllTelemetry(index)
             speeds  == SelectSeq([j \in 1..Len(allData) |-> allData[j].speed.mph],
                                  LAMBDA x : NumLess(Num(0), x))
             RECURSIVE MaxOf(_, _)
             MaxOf(j, m) == IF j > Len(speeds) THEN m
                            ELSE MaxOf(j + 1, IF NumLess(m, speeds[j]) THEN speeds[j] ELSE m)
             autopilotFrames == Len(SelectSeq(allData, LAMBDA d : d.autopilot.isActive))
         IN  [ isNull     |-> FALSE,
               frameCount |-> Len(allData),
               duration   |-> dur,
               frameRate  |-> rate,
               speed      |-> [ max     |-> IF Len(speeds) > 0 THEN MaxOf(2, speeds[1])
                                            ELSE Num(0),
                                average |-> IF Len(speeds) > 0
                                            THEN NumDiv(SumDurations(speeds, Num(0)),
                                                        Num(Len(speeds)))
                                            ELSE Num(0) ],
               autopilot  |-> [ framesActive     |-> autopilotFrames,
                                percentageActive |->
                                    NumMul(NumDiv(Num(autopilotFrames), Num(Len(allData))),
                                           Num(100)) ] ]

\* A query that writes the timestamp into each stored record instead of into a copy
IndexAfterQuery_StampsEntries(op, index) ==
    IF op = "getAllTelemetry"
    THEN [ j \in 1..Len(index) |->
             [key |-> index[j].key, value |-> getAllTelemetry(index)[j]] ]
    ELSE index

\* this.telemetryIndex after a query: getTelemetryAtTime, getAllTelemetry,
\* hasTelemetry and getStatistics call keys(), get(), entries() and size, never
\* set(), delete() or clear(), and assign to no property of a stored record
IndexAfterQuery(op, index) == index

-----------------------------------------------------------------------------
(* SpecDecoder: one TelemetryDecoder, buildIndex and the queries called in  *)
(* any order on bounded inputs.                                             *)

\* Decoded SEI messages as the protobuf decoder hands them over: an object
\* holds only the fields that were present on the wire.
SeiSamples ==
    { [vehicleSpeedMps |-> Num(10), autopilotState |-> Num(2)],
      [frameSeqNo |-> Num(50000), latitudeDeg |-> Num(91), longitudeDeg |-> Num(10)],
      [frame_seq_no |-> Num(1), acceleratorPedalPosition |-> Fin(3, 2)] }

\* The object identity of a message: every message of every list is its own object
WithUid(sample, uid) ==
    [f \in (DOMAIN sample) \cup {"uid"} |-> IF f = "uid" THEN uid ELSE sample[f]]

\* The seiMessages lists of a call; b tells its objects from the previous call's
SeiLists(b) ==
    UNION { { [i \in 1..n |-> WithUid(picks[i], <<b, i>>)] : picks \in [1..n -> SeiSamples] }
            : n \in 0..MaxRecords }

NullConfig   == [isNull |-> TRUE, hasDurations |-> FALSE, durations |-> <<>>]
Config(ds)   == [isNull |-> FALSE, hasDurations |-> TRUE, durations |-> ds]

\* Track configurations: none, 50 fps, 1 fps, a zero mean, and the duration
\* getConfig computes as (delta / timescale) * 1000 when the media header's
\* timescale is 0 and delta > 0 (Infinity)
ConfigSamples ==
    { NullConfig, Config(<<Num(20)>>), Config(<<Num(1000), Num(1000)>>),
      Config(<<Num(0)>>), Config(<<Infinity>>) }

\* Playback times asked of getTelemetryAtTime
QueryTimes ==
    { Num(-5), Fin(15, 1000), Fin(1, 2), Num(1), Num(1667) }

VideoDuration == Num(60)

NoBuild == [seiMessages |-> <<>>, videoConfig |-> NullConfig, ret |-> 0, priorSize |-> 0]
NoQuery == [op |-> "none", time |-> Num(0), ret |-> NoRecord, size |-> 0]

\* decodeSei's null, and the object SeiMetadata.decode returns: its fields in
\* the order of the payload
NullSei == [isNull |-> TRUE, fields |-> <<>>]
SeiObject(fields) == [isNull |-> FALSE, fields |-> fields]

\* No scanning call has been made, no decodeSei call has been made
NoScan == [op |-> "none", SeiMetadata |-> FALSE, state |-> "idle"]
NoDecode == [nal |-> <<>>, SeiMetadata |-> FALSE, ret |-> NullSei, called |-> FALSE,
             outcome |-> "none"]

\* this._config = null
NoConfig == [isNull |-> TRUE, width |-> 0, height |-> 0, codec |-> <<>>, sps |-> <<>>,
             pps |-> <<>>, timescale |-> 0, durations |-> <<>>]

NoRange == [start |-> 0, end |-> 0, size |-> 0]

NoFile == "none"

\* app.telemetryData = null (constructor, app.js:15-26)
NullData == [isNull |-> TRUE]

\* No element with id telemetryStatus exists before the first updateVideoMetadata
NoStatus == [text |-> "absent", frames |-> 0]

\* The page as the constructor finds it: indicator, progress bar and dialog hidden
InitialUi ==
    [ loading        |-> FALSE,      \* loadingIndicator is shown
      message        |-> "",         \* loadingMessage.textContent
      progressHidden |-> TRUE,       \* progressBar carries the class hidden
      progressFill   |-> 0,          \* progressFill.style.width, in percent
      status         |-> NoStatus,   \* the telemetryStatus element
      error          |-> "hidden",   \* errorContainer: hidden, or the title shown
      fileInfo       |-> NoFile,     \* the file whose info is displayed
      videoSection   |-> FALSE,      \* videoSection is shown
      dashboard      |-> FALSE,      \* telemetryDashboard is shown
      map            |-> FALSE,      \* app.mapController is set
      timeline       |-> FALSE ]     \* app.timelineController is set

\* SpecDecoder starts from a fresh TelemetryDecoder; the other components are idle
DecoderInit ==
    /\ telemetryIndex = <<>>
    /\ frameRate = Num(DefaultFrameRate)
    /\ duration = Num(0)
    /\ builds = 0
    /\ lastBuild = NoBuild
    /\ lastQuery = NoQuery
    /\ stripData = <<>>
    /\ stripOnce = <<>>
    /\ stripTwice = <<>>
    /\ stripPc = "idle"
    /\ buffer = <<>>
    /\ fbStart = 0
    /\ fbEnd = 0
    /\ fbName = "none"
    /\ fbPos = 0
    /\ fbState = "idle"
    /\ fbResult = NoRange
    /\ fbRawSize = 0
    /\ parseGeneration = 0
    /\ currentFile = NoFile
    /\ telemetryData = NullData
    /\ parserWorker = 0
    /\ protobufLoaded = FALSE
    /\ video = [src |-> NoFile, state |-> "idle", duration |-> Num(0)]
    /\ calls = <<>>
    /\ ui = InitialUi
    /\ scanCall = NoScan
    /\ cursor = 0
    /\ scanEnd = 0
    /\ messages = <<>>
    /\ frames = <<>>
    /\ pendingSei = NullSei
    /\ currentSps = <<>>
    /\ currentPps = <<>>
    /\ cachedConfig = NoConfig
    /\ lastDecode = NoDecode
    /\ workerApi = TRUE

NextBuild(b) == IF b = 1 THEN 2 ELSE 1

\* buildIndex(seiMessages, videoConfig, duration).  A query leaves every field of
\* the decoder unchanged, so a call made after a query reaches the state the same
\* call reaches before it; only the latter transition is enumerated.
BuildIndex ==
    /\ lastQuery = NoQuery
    /\ \E seiMessages \in SeiLists(NextBuild(builds)), videoConfig \in ConfigSamples :
        /\ duration' = VideoDuration
        /\ telemetryIndex' = BuildIndexMap(telemetryIndex, seiMessages, videoConfig, frameRate)
        /\ frameRate' = FrameRateFor(videoConfig, frameRate)
        /\ lastBuild' = [seiMessages |-> seiMessages, videoConfig |-> videoConfig,
                         ret |-> Len(telemetryIndex'),
                         priorSize |-> Len(telemetryIndex)]
    /\ builds' = NextBuild(builds)
    /\ lastQuery' = NoQuery
    /\ UNCHANGED <<stripVars, boxVars, appVars, scanVars>>

\* getTelemetryAtTime(time)
GetTelemetryAtTime ==
    /\ \E time \in QueryTimes :
        lastQuery' = [op |-> "getTelemetryAtTime", time |-> time,
                      ret |-> getTelemetryAtTime(telemetryIndex, time),
                      size |-> Len(telemetryIndex)]
    /\ telemetryIndex' = IndexAfterQuery("getTelemetryAtTime", telemetryIndex)
    /\ UNCHANGED <<frameRate, duration, builds, lastBuild>>
    /\ UNCHANGED <<stripVars, boxVars, appVars, scanVars>>

\* hasTelemetry()
HasTelemetry ==
    /\ lastQuery' = [op |-> "hasTelemetry", time |-> Num(0),
                     ret |-> [isNull |-> ~hasTelemetry(telemetryIndex)],
                     size |-> Len(telemetryIndex)]
    /\ telemetryIndex' = IndexAfterQuery("hasTelemetry", telemetryIndex)
    /\ UNCHANGED <<frameRate, duration, builds, lastBuild>>
    /\ UNCHANGED <<stripVars, boxVars, appVars, scanVars>>

\* getAllTelemetry()
GetAllTelemetry ==
    /\ lastQuery' = [op |-> "getAllTelemetry", time |-> Num(0),
                     ret |-> [isNull |-> FALSE, data |-> getAllTelemetry(telemetryIndex)],
                     size |-> Len(telemetryIndex)]
    /\ telemetryIndex' = IndexAfterQuery("getAllTelemetry", telemetryIndex)
    /\ UNCHANGED <<frameRate, duration, builds, lastBuild>>
    /\ UNCHANGED <<stripVars, boxVars, appVars, scanVars>>

\* getStatistics()
GetStatistics ==
    /\ lastQuery' = [op |-> "getStatistics", time |-> Num(0),
                     ret |-> getStatistics(telemetryIndex, duration, frameRate),
                     size |-> Len(telemetryIndex)]
    /\ telemetryIndex' = IndexAfterQuery("getStatistics", telemetryIndex)
    /\ UNCHANGED <<frameRate, duration, builds, lastBuild>>
    /\ UNCHANGED <<stripVars, boxVars, appVars, scanVars>>

DecoderNext ==
    BuildIndex \/ GetTelemetryAtTime \/ HasTelemetry \/ GetAllTelemetry \/ GetStatistics

SpecDecoder == DecoderInit /\ [][DecoderNext]_vars

-----------------------------------------------------------------------------
(* Claims on the TelemetryDecoder, checked under SpecDecoder *)

\* Position (1-based) of a key in the index
KeyPos(index, key) == CHOOSE j \in 1..Len(index) : index[j].key = key

\* C1 (as claimed): after buildIndex the record at position i of the input list
\* is indexed at the timestamp i / frameRate, whatever frameSeqNo / frame_seq_no
\* it carries.
C1_PositionTimestamps ==
    builds > 0 =>
        \A i \in 1..Len(lastBuild.seiMessages) :
            \E j \in 1..Len(telemetryIndex) :
                /\ telemetryIndex[j].key = NumDiv(Num(i - 1), frameRate)
                /\ telemetryIndex[j].value.raw = lastBuild.seiMessages[i]

\* C5: after buildIndex(L) every entry of the index was created from a record
\* of L (it is the decoding of the record at some position of L), whatever the
\* earlier buildIndex calls inserted.
C5_OnlyCurrentRecords ==
    \A j \in 1..Len(telemetryIndex) :
        \E i \in 1..Len(lastBuild.seiMessages) :
            telemetryIndex[j].value = decodeSEIMessage(lastBuild.seiMessages[i], i - 1)

\* C5 witness: a buildIndex call on a non-empty list found two earlier entries
\* in the index and left a single entry, created from its own list.
C5_Witness ==
    /\ lastBuild.priorSize = 2
    /\ Len(lastBuild.seiMessages) = 1
    /\ Len(telemetryIndex) = 1
    /\ telemetryIndex[1].value.raw = lastBuild.seiMessages[1]

\* C6 (as claimed): the record getTelemetryAtTime(t) returns is the one whose
\* timestamp has the minimum absolute difference from t over all index
\* timestamps, the first such timestamp in index order on a tie; the early exit
\* does not change this.  (That a record is returned at all is C7.)
C6_NearestFirstFound ==
    (lastQuery.op = "getTelemetryAtTime" /\ ~lastQuery.ret.isNull) =>
        LET diff(j) == NumAbsDiff(telemetryIndex[j].key, lastQuery.time)
            r       == KeyPos(telemetryIndex, lastQuery.ret.key)
        IN  /\ lastQuery.ret.data = telemetryIndex[r].value
            /\ \A j \in 1..Len(telemetryIndex) :
                 /\ ~NumLess(diff(j), diff(r))
                 /\ (diff(j) = diff(r) => r <= j)

\* C7 (as claimed): getTelemetryAtTime returns null only when the index is
\* empty.
C7_NullOnlyWhenEmpty ==
    (lastQuery.op = "getTelemetryAtTime" /\ Len(telemetryIndex) > 0) =>
        ~lastQuery.ret.isNull

\* C17: after every buildIndex call the frame rate is 1000 / mean of the
\* durations of that call's configuration, and 30 when the configuration or
\* its durations are missing or empty or the mean is not positive, whatever an
\* earlier call on the same decoder computed.
C17_FrameRateFromThisCall ==
    builds > 0 =>
        LET videoConfig == lastBuild.videoConfig
            mean == NumDiv(SumDurations(videoConfig.durations, Num(0)),
                           Num(Len(videoConfig.durations)))
        IN  frameRate =
                IF videoConfig.isNull \/ ~videoConfig.hasDurations \/ videoConfig.durations = <<>>
                THEN Num(DefaultFrameRate)
                ELSE IF NumLess(Num(0), mean) THEN NumDiv(Num(1000), mean)
                ELSE Num(DefaultFrameRate)

\* C18: the accelerator value of every record of the index lies in 0..100.
C18_AcceleratorClamped ==
    \A k \in 1..Len(telemetryIndex) :
        LET accelerator == telemetryIndex[k].value.accelerator
        IN  /\ ~NumLess(accelerator, Num(0))
            /\ ~NumLess(Num(100), accelerator)

\* C19: gps.isValid of a record of the index is true only if latitude and
\* longitude are both present and lie in -90..90 and -180..180.
C19_ValidOnlyInRange ==
    \A k \in 1..Len(telemetryIndex) :
        LET gps == telemetryIndex[k].value.gps
        IN  gps.isValid =>
                /\ gps.latitude # Null
                /\ gps.longitude # Null
                /\ ~NumLess(gps.latitude, Num(-90))
                /\ ~NumLess(Num(90), gps.latitude)
                /\ ~NumLess(gps.longitude, Num(-180))
                /\ ~NumLess(Num(180), gps.longitude)

\* C22: buildIndex inserts one entry per input record and returns the number of
\* entries created: for a list of N records it returns N and the index then
\* holds N entries; for the empty list it returns 0 and hasTelemetry() is false.
C22_OneEntryPerRecord ==
    builds > 0 =>
        /\ lastBuild.ret = Len(lastBuild.seiMessages)
        /\ Len(telemetryIndex) = Len(lastBuild.seiMessages)
        /\ (lastBuild.seiMessages = <<>> => ~hasTelemetry(telemetryIndex))

\* C23: the query service is read-only: a call of getTelemetryAtTime,
\* getAllTelemetry, hasTelemetry or getStatistics leaves the index's timestamps
\* and every indexed record as they were, so that in every state the index is
\* still what the last buildIndex call built.
C23_QueriesReadOnly ==
    /\ [][lastQuery' # lastQuery =>
            /\ telemetryIndex' = telemetryIndex
            /\ frameRate' = frameRate]_vars
    /\ [](telemetryIndex = BuildLoop(<<>>, lastBuild.seiMessages, 0, frameRate))

\* C23 witness: getAllTelemetry has returned the copies of a two-entry index,
\* each with its timestamp, and the stored records carry no timestamp.
C23_Witness ==
    /\ lastQuery.op = "getAllTelemetry"
    /\ Len(telemetryIndex) = 2
    /\ Len(lastQuery.ret.data) = 2
    /\ \A j \in 1..2 :
         /\ lastQuery.ret.data[j].timestamp = telemetryIndex[j].key
         /\ "timestamp" \notin DOMAIN telemetryIndex[j].value

\* C23 witness: getStatistics has summarised a non-empty index.
C23_WitnessStatistics ==
    /\ lastQuery.op = "getStatistics"
    /\ ~lastQuery.ret.isNull
    /\ lastQuery.ret.frameCount = 2
    /\ lastQuery.ret.autopilot.framesActive = 1

\* C25: every indexed record carries regenBraking, true exactly when the
\* longitudinal acceleration (acceleration.x) is below -0.5 m/s2 and the
\* accelerator is below 5 % and the brake is not applied and the speed is above
\* 0.5 m/s, all read from that record's own fields.
C25_RegenBrakingFlag ==
    \A k \in 1..Len(telemetryIndex) :
        LET r == telemetryIndex[k].value
        IN  /\ "regenBraking" \in DOMAIN r
            /\ Field(r, "regenBraking") =
                   Bool(/\ NumLess(r.acceleration.x, Fin(-1, 2))
                        /\ NumLess(r.accelerator, Num(5))
                        /\ ~Truthy(r.brake)
                        /\ NumLess(Fin(1, 2), r.speed.mps))

-----------------------------------------------------------------------------
(* DashcamMP4.stripEmulationBytes *)

\* The loop of stripEmulationBytes from byte i (1-based) on
RECURSIVE StripLoop(_, _, _, _)
StripLoop(data, i, zeros, out) ==
    IF i > Len(data) THEN out
    ELSE LET byte == data[i]
         IN  IF zeros >= 2 /\ byte = 3
             THEN StripLoop(data, i + 1, 0, out)
             ELSE StripLoop(data, i + 1, IF byte = 0 THEN zeros + 1 ELSE 0,
                            Append(out, byte))

\* The loop with the test `zeros > 2` in place of `zeros >= 2`
RECURSIVE StripLoop_ThreeZeros(_, _, _, _)
StripLoop_ThreeZeros(data, i, zeros, out) ==
    IF i > Len(data) THEN out
    ELSE LET byte == data[i]
         IN  IF zeros > 2 /\ byte = 3
             THEN StripLoop_ThreeZeros(data, i + 1, 0, out)
             ELSE StripLoop_ThreeZeros(data, i + 1, IF byte = 0 THEN zeros + 1 ELSE 0,
                                       Append(out, byte))

\* The loop with a zero counter that a non-zero byte does not reset
RECURSIVE StripLoop_NoReset(_, _, _, _)
StripLoop_NoReset(data, i, zeros, out) ==
    IF i > Len(data) THEN out
    ELSE LET byte == data[i]
         IN  IF zeros >= 2 /\ byte = 3
             THEN StripLoop_NoReset(data, i + 1, 0, out)
             ELSE StripLoop_NoReset(data, i + 1, IF byte = 0 THEN zeros + 1 ELSE zeros,
                                    Append(out, byte))

stripEmulationBytes_ThreeZeros(data) == StripLoop_ThreeZeros(data, 1, 0, <<>>)
stripEmulationBytes_NoReset(data) == StripLoop_NoReset(data, 1, 0, <<>>)

\* stripEmulationBytes(data)
stripEmulationBytes(data) == StripLoop(data, 1, 0, <<>>)

-----------------------------------------------------------------------------
(* SpecStrip: stripEmulationBytes applied once and twice to every byte      *)
(* sequence of up to MaxStripLen bytes over 0x00, 0x03 and one other byte.  *)

StripBytes == {0, 1, 3}

StripInputs == UNION { [1..n -> StripBytes] : n \in 0..MaxStripLen }

StripInit ==
    /\ stripData \in StripInputs
    /\ stripOnce = <<>>
    /\ stripTwice = <<>>
    /\ stripPc = "in"
    /\ telemetryIndex = <<>>
    /\ frameRate = Num(DefaultFrameRate)
    /\ duration = Num(0)
    /\ builds = 0
    /\ lastBuild = NoBuild
    /\ lastQuery = NoQuery
    /\ buffer = <<>>
    /\ fbStart = 0
    /\ fbEnd = 0
    /\ fbName = "none"
    /\ fbPos = 0
    /\ fbState = "idle"
    /\ fbResult = NoRange
    /\ fbRawSize = 0
    /\ parseGeneration = 0
    /\ currentFile = NoFile
    /\ telemetryData = NullData
    /\ parserWorker = 0
    /\ protobufLoaded = FALSE
    /\ video = [src |-> NoFile, state |-> "idle", duration |-> Num(0)]
    /\ calls = <<>>
    /\ ui = InitialUi
    /\ scanCall = NoScan
    /\ cursor = 0
    /\ scanEnd = 0
    /\ messages = <<>>
    /\ frames = <<>>
    /\ pendingSei = NullSei
    /\ currentSps = <<>>
    /\ currentPps = <<>>
    /\ cachedConfig = NoConfig
    /\ lastDecode = NoDecode
    /\ workerApi = TRUE

\* out = stripEmulationBytes(data)
StripFirst ==
    /\ stripPc = "in"
    /\ stripOnce' = stripEmulationBytes(stripData)
    /\ stripPc' = "once"
    /\ UNCHANGED <<stripData, stripTwice>>
    /\ UNCHANGED <<decVars, boxVars, appVars, scanVars>>

\* stripEmulationBytes(out)
StripSecond ==
    /\ stripPc = "once"
    /\ stripTwice' = stripEmulationBytes(stripOnce)
    /\ stripPc' = "twice"
    /\ UNCHANGED <<stripData, stripOnce>>
    /\ UNCHANGED <<decVars, boxVars, appVars, scanVars>>

StripNext == StripFirst \/ StripSecond

SpecStrip == StripInit /\ [][StripNext]_vars

\* pat occurs in s as a block of consecutive bytes
Contains(s, pat) ==
    \E o \in 0..(Len(s) - Len(pat)) : \A j \in 1..Len(pat) : s[o + j] = pat[j]

\* An escape byte followed by an 03 that the reset counter lets through:
\* 00 00 03 03, or 00 00 03 00 03
EscapedThree(s) == Contains(s, <<0, 0, 3, 3>>) \/ Contains(s, <<0, 0, 3, 0, 3>>)

\* C8 (as claimed): the output of stripEmulationBytes contains no 00 00 03.
C8_NoEscapeInOutput ==
    stripPc \in {"once", "twice"} => ~Contains(stripOnce, <<0, 0, 3>>)

\* C8 (amended): the output contains 00 00 03 only when the input contains
\* 00 00 03 03 or 00 00 03 00 03; every other input yields an output without
\* 00 00 03.
C8_EscapeOnlyFromEscapedThree ==
    (stripPc \in {"once", "twice"} /\ ~EscapedThree(stripData)) =>
        ~Contains(stripOnce, <<0, 0, 3>>)

\* C8 witness: an input with an escape sequence and without an escaped 03 has
\* been stripped; the escape byte is gone and the output has no 00 00 03.
C8_Witness ==
    /\ stripPc = "once"
    /\ Contains(stripData, <<0, 0, 3>>)
    /\ ~EscapedThree(stripData)
    /\ Len(stripOnce) < Len(stripData)
    /\ ~Contains(stripOnce, <<0, 0, 3>>)

\* C9 (as claimed): stripping the output again yields the same output.
C9_Idempotent ==
    stripPc = "twice" => stripTwice = stripOnce

\* C9 (amended): stripping the output again yields the same output exactly
\* when the first output contains no 00 00 03, hence for every input that
\* contains neither 00 00 03 03 nor 00 00 03 00 03.
C9_IdempotentWithoutEscapedThree ==
    stripPc = "twice" =>
        /\ (stripTwice = stripOnce) <=> ~Contains(stripOnce, <<0, 0, 3>>)
        /\ ~EscapedThree(stripData) => stripTwice = stripOnce

\* C9 witness: an input from which an escape byte was removed has been
\* stripped twice and the second pass changed nothing.
C9_Witness ==
    /\ stripPc = "twice"
    /\ Len(stripOnce) < Len(stripData)
    /\ stripTwice = stripOnce

-----------------------------------------------------------------------------
(* DashcamMP4.findBox.  Offsets are 0-based as in the code; byte o of the   *)
(* file is buffer[o + 1].                                                   *)

\* DataView reads throw a RangeError outside the buffer
CanRead(buf, pos, n) == pos >= 0 /\ pos + n <= Len(buf)

\* view.getUint32(pos): big-endian
GetUint32(buf, pos) ==
    ((buf[pos + 1] * 256 + buf[pos + 2]) * 256 + buf[pos + 3]) * 256 + buf[pos + 4]

\* Number((BigInt(high) << 32n) | BigInt(low)).  A size of 2^32 or more is
\* represented by HugeSize, which like it exceeds every offset of a modelled
\* file and every 32-bit size a modelled file holds.
HugeSize == 2147483647 - 4096
Size64(high, low) == IF high = 0 THEN low ELSE HugeSize

\* The bytes of a 4-character box type, as readAscii returns them
TypeCode(name) ==
    CASE name = "moov" -> <<109, 111, 111, 118>>
      [] name = "trak" -> <<116, 114, 97, 107>>
      [] name = "mdat" -> <<109, 100, 97, 116>>
      [] name = "free" -> <<102, 114, 101, 101>>
      [] name = "mdia" -> <<109, 100, 105, 97>>
      [] name = "minf" -> <<109, 105, 110, 102>>
      [] name = "stbl" -> <<115, 116, 98, 108>>
      [] name = "stsd" -> <<115, 116, 115, 100>>
      [] name = "avc1" -> <<97, 118, 99, 49>>
      [] name = "avcC" -> <<97, 118, 99, 67>>
      [] name = "mdhd" -> <<109, 100, 104, 100>>
      [] name = "stts" -> <<115, 116, 116, 115>>

\* readAscii(start, 4)
ReadAscii4(buf, start) == <<buf[start + 1], buf[start + 2], buf[start + 3], buf[start + 4]>>

\* One pass of the loop of findBox at position pos with a size-0 box taken to
\* reach the end of the file instead of the end of the searched range
FindBoxIter_ZeroToFileEnd(buf, pos, end, name) ==
    IF ~(pos + 8 <= end) THEN [kind |-> "notfound", pos |-> pos, result |-> NoRange, raw |-> 0]
    ELSE IF ~CanRead(buf, pos, 8) THEN [kind |-> "rangeerror", pos |-> pos, result |-> NoRange, raw |-> 0]
    ELSE LET raw        == GetUint32(buf, pos)
             type       == ReadAscii4(buf, pos + 4)
             headerSize == IF raw = 1 THEN 16 ELSE 8
         IN  IF raw = 1 /\ ~CanRead(buf, pos + 8, 8)
             THEN [kind |-> "rangeerror", pos |-> pos, result |-> NoRange, raw |-> raw]
             ELSE LET size == IF raw = 1
                              THEN Size64(GetUint32(buf, pos + 8), GetUint32(buf, pos + 12))
                              ELSE IF raw = 0 THEN Len(buf) - pos ELSE raw
                  IN  IF type = TypeCode(name)
                      THEN [kind |-> "found", pos |-> pos, raw |-> raw,
                            result |-> [start |-> pos + headerSize, end |-> pos + size,
                                        size |-> size - headerSize]]
                      ELSE [kind |-> "next", pos |-> pos + size, result |-> NoRange, raw |-> raw]

\* One pass of the loop of findBox that advances by the header instead of the
\* box size, so that the scan enters the box it has just skipped
FindBoxIter_IntoBox(buf, pos, end, name) ==
    IF ~(pos + 8 <= end) THEN [kind |-> "notfound", pos |-> pos, result |-> NoRange, raw |-> 0]
    ELSE IF ~CanRead(buf, pos, 8) THEN [kind |-> "rangeerror", pos |-> pos, result |-> NoRange, raw |-> 0]
    ELSE LET raw        == GetUint32(buf, pos)
             type       == ReadAscii4(buf, pos + 4)
             headerSize == IF raw = 1 THEN 16 ELSE 8
         IN  IF raw = 1 /\ ~CanRead(buf, pos + 8, 8)
             THEN [kind |-> "rangeerror", pos |-> pos, result |-> NoRange, raw |-> raw]
             ELSE LET size == IF raw = 1
                              THEN Size64(GetUint32(buf, pos + 8), GetUint32(buf, pos + 12))
                              ELSE IF raw = 0 THEN end - pos ELSE raw
                  IN  IF type = TypeCode(name)
                      THEN [kind |-> "found", pos |-> pos, raw |-> raw,
                            result |-> [start |-> pos + headerSize, end |-> pos + size,
                                        size |-> size - headerSize]]
                      ELSE [kind |-> "next", pos |-> pos + headerSize, result |-> NoRange, raw |-> raw]

\* One pass of the loop of findBox(start, end, name) at position pos:
\* the loop test, the header reads, then the return or the advance
FindBoxIter(buf, pos, end, name) ==
    IF ~(pos + 8 <= end) THEN [kind |-> "notfound", pos |-> pos, result |-> NoRange, raw |-> 0]
    ELSE IF ~CanRead(buf, pos, 8) THEN [kind |-> "rangeerror", pos |-> pos, result |-> NoRange, raw |-> 0]
    ELSE LET raw        == GetUint32(buf, pos)
             type       == ReadAscii4(buf, pos + 4)
             headerSize == IF raw = 1 THEN 16 ELSE 8
         IN  IF raw = 1 /\ ~CanRead(buf, pos + 8, 8)
             THEN [kind |-> "rangeerror", pos |-> pos, result |-> NoRange, raw |-> raw]
             ELSE LET size == IF raw = 1
                              THEN Size64(GetUint32(buf, pos + 8), GetUint32(buf, pos + 12))
                              ELSE IF raw = 0 THEN end - pos ELSE raw
                  IN  IF type = TypeCode(name)
                      THEN [kind |-> "found", pos |-> pos, raw |-> raw,
                            result |-> [start |-> pos + headerSize, end |-> pos + size,
                                        size |-> size - headerSize]]
                      ELSE [kind |-> "next", pos |-> pos + size, result |-> NoRange, raw |-> raw]

-----------------------------------------------------------------------------
(* SpecBox: findBox on generated buffers, first on the whole file, then on  *)
(* the range a previous call returned (as getConfig descends moov > trak).  *)

\* 32-bit big-endian encoding of n
U32(n) == <<(n \div 16777216) % 256, (n \div 65536) % 256, (n \div 256) % 256, n % 256>>

\* A box with a 32-bit size, with a 64-bit extended size, and one reaching
\* the end of its parent
Box32(type, payload) == U32(8 + Len(payload)) \o TypeCode(type) \o payload
Box64(type, payload) == U32(1) \o TypeCode(type) \o U32(0) \o U32(16 + Len(payload)) \o payload
Box0(type, payload)  == U32(0) \o TypeCode(type) \o payload

\* Well-formed boxes: leaves and containers, every kind of header
ValidBoxes ==
    { Box32("free", <<>>),
      Box32("mdat", <<7, 7>>),
      Box64("mdat", <<7>>),
      Box32("moov", Box32("trak", <<7>>)),
      Box64("moov", Box32("free", <<>>) \o Box0("trak", <<7>>)),
      Box0("mdat", <<7, 7>>) }

\* Malformed boxes: a size below the header size, a size beyond the file, a
\* 64-bit size of 0, and a 64-bit marker without its size field
MalformedBoxes ==
    { U32(4) \o TypeCode("free"),
      U32(100) \o TypeCode("mdat") \o <<7>>,
      U32(1) \o TypeCode("free") \o U32(0) \o U32(0),
      U32(1) \o TypeCode("moov") }

BoxShapes == ValidBoxes \cup MalformedBoxes

RECURSIVE Concat(_)
Concat(seqs) == IF seqs = <<>> THEN <<>> ELSE Head(seqs) \o Concat(Tail(seqs))

\* The files: up to MaxBoxes boxes one after the other
BoxBuffers ==
    UNION { { Concat(boxes) : boxes \in [1..n -> BoxShapes] } : n \in 0..MaxBoxes }

BoxNames == {"moov", "trak", "mdat", "free"}

BoxInit ==
    /\ buffer \in BoxBuffers
    /\ fbStart = 0
    /\ fbEnd = Len(buffer)
    /\ fbName = "none"
    /\ fbPos = 0
    /\ fbState = "idle"
    /\ fbResult = NoRange
    /\ fbRawSize = 0
    /\ telemetryIndex = <<>>
    /\ frameRate = Num(DefaultFrameRate)
    /\ duration = Num(0)
    /\ builds = 0
    /\ lastBuild = NoBuild
    /\ lastQuery = NoQuery
    /\ stripData = <<>>
    /\ stripOnce = <<>>
    /\ stripTwice = <<>>
    /\ stripPc = "idle"
    /\ parseGeneration = 0
    /\ currentFile = NoFile
    /\ telemetryData = NullData
    /\ parserWorker = 0
    /\ protobufLoaded = FALSE
    /\ video = [src |-> NoFile, state |-> "idle", duration |-> Num(0)]
    /\ calls = <<>>
    /\ ui = InitialUi
    /\ scanCall = NoScan
    /\ cursor = 0
    /\ scanEnd = 0
    /\ messages = <<>>
    /\ frames = <<>>
    /\ pendingSei = NullSei
    /\ currentSps = <<>>
    /\ currentPps = <<>>
    /\ cachedConfig = NoConfig
    /\ lastDecode = NoDecode
    /\ workerApi = TRUE

\* findBox(start, end, name) is called on the current range
FindBoxCall ==
    /\ fbState # "scan"
    /\ \E name \in BoxNames : fbName' = name
    /\ fbPos' = fbStart
    /\ fbState' = "scan"
    /\ fbResult' = NoRange
    /\ fbRawSize' = 0
    /\ UNCHANGED <<buffer, fbStart, fbEnd>>
    /\ UNCHANGED <<decVars, stripVars, appVars, scanVars>>

\* One pass of the loop: return, throw, or advance pos
FindBoxStep ==
    /\ fbState = "scan"
    /\ LET it == FindBoxIter(buffer, fbPos, fbEnd, fbName)
       IN  /\ fbState' = IF it.kind = "next" THEN "scan" ELSE it.kind
           /\ fbPos' = it.pos
           /\ fbResult' = it.result
           /\ fbRawSize' = it.raw
    /\ UNCHANGED <<buffer, fbStart, fbEnd, fbName>>
    /\ UNCHANGED <<decVars, stripVars, appVars, scanVars>>

\* The caller searches inside the box it found: findBox(box.start, box.end, ...)
Descend ==
    /\ fbState = "found"
    /\ fbStart' = fbResult.start
    /\ fbEnd' = fbResult.end
    /\ fbState' = "idle"
    /\ fbPos' = 0
    /\ fbName' = "none"
    /\ fbResult' = NoRange
    /\ fbRawSize' = 0
    /\ UNCHANGED buffer
    /\ UNCHANGED <<decVars, stripVars, appVars, scanVars>>

BoxNext == FindBoxCall \/ FindBoxStep \/ Descend

SpecBox == BoxInit /\ [][BoxNext]_vars

\* The boxes of buf from pos on fill the range up to end exactly: each has a
\* complete header, a size no smaller than its header, and ends inside the range
RECURSIVE ValidBoxList(_, _, _)
ValidBoxList(buf, pos, end) ==
    \/ pos = end
    \/ /\ pos + 8 <= end
       /\ CanRead(buf, pos, 8)
       /\ LET raw == GetUint32(buf, pos)
          IN  CASE raw = 0 -> TRUE
                [] raw = 1 -> /\ pos + 16 <= end
                              /\ CanRead(buf, pos + 8, 8)
                              /\ GetUint32(buf, pos + 8) = 0
                              /\ GetUint32(buf, pos + 12) >= 16
                              /\ pos + GetUint32(buf, pos + 12) <= end
                              /\ ValidBoxList(buf, pos + GetUint32(buf, pos + 12), end)
                [] OTHER   -> /\ raw >= 8
                              /\ pos + raw <= end
                              /\ ValidBoxList(buf, pos + raw, end)

\* C10 (as claimed): in a valid box list the range findBox returns lies inside
\* the searched range [start, end), for 32-bit headers, 64-bit extended
\* headers and size field 0, and a box of declared size 0 ends where the
\* searched range ends.
C10_ResultInsideWindow ==
    (fbState = "found" /\ ValidBoxList(buffer, fbStart, fbEnd)) =>
        /\ fbStart <= fbResult.start
        /\ fbResult.start <= fbResult.end
        /\ fbResult.end <= fbEnd
        /\ fbResult.size = fbResult.end - fbResult.start
        /\ fbResult.start = fbPos + (IF fbRawSize = 1 THEN 16 ELSE 8)
        /\ (fbRawSize = 0 => fbResult.end = fbEnd)

\* C10 witness: inside a box that is not the last of the file, findBox returned
\* a box of declared size 0 that comes after another box.
C10_Witness ==
    /\ fbState = "found"
    /\ ValidBoxList(buffer, fbStart, fbEnd)
    /\ fbStart > 0
    /\ fbEnd < Len(buffer)
    /\ fbPos > fbStart
    /\ fbRawSize = 0
    /\ fbResult.end = fbEnd

\* A 64-bit header has been returned from a valid list
C10_Witness64 ==
    /\ fbState = "found"
    /\ ValidBoxList(buffer, fbStart, fbEnd)
    /\ fbRawSize = 1
    /\ fbResult.start = fbPos + 16

\* The header position of the first box of the list from pos to end whose type
\* is name, or -1 when the list has none; only the boxes of the list itself are
\* looked at, never what they contain
RECURSIVE FirstTopLevel(_, _, _, _)
FirstTopLevel(buf, pos, end, name) ==
    IF pos + 8 > end THEN -1
    ELSE IF ReadAscii4(buf, pos + 4) = TypeCode(name) THEN pos
    ELSE LET raw  == GetUint32(buf, pos)
             size == IF raw = 0 THEN end - pos
                     ELSE IF raw = 1 THEN GetUint32(buf, pos + 12)
                     ELSE raw
         IN  FirstTopLevel(buf, pos + size, end, name)

C11_WitnessFirstOfTwo ==
    /\ fbState = "found"
    /\ ValidBoxList(buffer, fbStart, fbEnd)
    /\ fbPos = fbStart
    /\ fbResult.end + 8 <= fbEnd
    /\ ReadAscii4(buffer, fbResult.end + 4) = TypeCode(fbName)

\* C27: findBox terminates on every buffer and window: a pass of its loop that
\* neither returns nor throws moves pos forward by a strictly positive amount,
\* also when the box has a 64-bit size field of 0 or one below the header size.
C27_EveryPassAdvances ==
    fbState = "scan" =>
        LET it == FindBoxIter(buffer, fbPos, fbEnd, fbName)
        IN  it.kind = "next" => it.pos > fbPos

-----------------------------------------------------------------------------
(* DashcamMP4: findMdat, getConfig, decodeSei, extractSeiMessages, parseFrames *)

\* A whole findBox(start, end, name) call: the passes of its loop until it
\* returns or throws.  A scan that makes no progress is cut after fuel passes.
RECURSIVE FindBoxFrom(_, _, _, _, _)
FindBoxFrom(buf, pos, end, name, fuel) ==
    LET it == FindBoxIter(buf, pos, end, name)
    IN  IF it.kind # "next" THEN it
        ELSE IF fuel = 0 THEN [it EXCEPT !.kind = "hang"]
        ELSE FindBoxFrom(buf, it.pos, end, name, fuel - 1)

findBox(buf, start, end, name) == FindBoxFrom(buf, start, end, name, Len(buf) + 1)

\* findMdat(): the content location of the first top-level mdat box
findMdat(buf) ==
    LET mdat == findBox(buf, 0, Len(buf), "mdat")
    IN  [kind |-> mdat.kind, offset |-> mdat.result.start, size |-> mdat.result.size]

\* view.getUint8(pos), view.getUint16(pos): big-endian
GetUint8(buf, pos) == buf[pos + 1]
GetUint16(buf, pos) == buf[pos + 1] * 256 + buf[pos + 2]

\* buffer.slice(from, to) and subarray(from, to): the bytes at from..to-1 that exist
Slice(buf, from, to) ==
    LET lo == IF from > Len(buf) THEN Len(buf) ELSE from
        hi == IF to > Len(buf) THEN Len(buf) ELSE to
    IN  IF hi <= lo THEN <<>> ELSE SubSeq(buf, lo + 1, hi)

\* count copies of ms, as the inner loop of getConfig pushes them
RECURSIVE Repeat(_, _)
Repeat(ms, count) == IF count <= 0 THEN <<>> ELSE <<ms>> \o Repeat(ms, count - 1)

\* The loop of getConfig over the entries of stts from entry i at pos; the
\* result is the list of durations, or a thrown RangeError
RECURSIVE SttsDurations(_, _, _, _, _)
SttsDurations(buf, pos, i, entryCount, timescale) ==
    IF ~(i < entryCount) THEN [kind |-> "ok", durations |-> <<>>]
    ELSE IF ~CanRead(buf, pos, 8) THEN [kind |-> "rangeerror", durations |-> <<>>]
    ELSE LET count == GetUint32(buf, pos)
             delta == GetUint32(buf, pos + 4)
             ms    == NumMul(NumDiv(Num(delta), Num(timescale)), Num(1000))
             rest  == SttsDurations(buf, pos + 8, i + 1, entryCount, timescale)
         IN  IF rest.kind # "ok" THEN rest
             ELSE [kind |-> "ok", durations |-> Repeat(ms, count) \o rest.durations]

\* hex(n): the two hexadecimal digits of a byte, as digit values
Hex(n) == <<n \div 16, n % 16>>

GetConfigError(kind) == [kind |-> kind, config |-> NoConfig]

\* A chain of findBox calls, each in the range the one before returned:
\* path lists the names and, for each, what the caller adds to the start of
\* the range (stsd.start + 8, avc1.start + 78).  The result is that of the
\* last call, or of the first that threw.
RECURSIVE FindPath(_, _, _, _)
FindPath(buf, start, end, path) ==
    LET r == findBox(buf, start + Head(path).skip, end, Head(path).name)
    IN  IF r.kind # "found" \/ Len(path) = 1 THEN r
        ELSE FindPath(buf, r.result.start, r.result.end, Tail(path))

In(name) == [name |-> name, skip |-> 0]
InAfter(name, skip) == [name |-> name, skip |-> skip]

\* getConfig() from "const o = avcC.start" on, given the boxes found so far
ConfigFromBoxes(buf, mdia, stbl, avc1, avcC) ==
    LET o      == avcC.result.start
        p1     == o + 6
        spsLen == GetUint16(buf, p1)
        p2     == p1 + 2 + spsLen + 1
        ppsLen == GetUint16(buf, p2)
        mdhd   == findBox(buf, mdia.result.start, mdia.result.end, "mdhd")
        mdhdVersion == GetUint8(buf, mdhd.result.start)
        tsPos  == IF mdhdVersion = 1 THEN mdhd.result.start + 20 ELSE mdhd.result.start + 12
        timescale == GetUint32(buf, tsPos)
        stts   == findBox(buf, stbl.result.start, stbl.result.end, "stts")
        entryCount == GetUint32(buf, stts.result.start + 4)
        loop   == SttsDurations(buf, stts.result.start + 8, 0, entryCount, timescale)
    IN  IF ~CanRead(buf, o + 1, 3) \/ ~CanRead(buf, p1, 2) THEN GetConfigError("rangeerror")
        ELSE IF ~CanRead(buf, p2, 2) THEN GetConfigError("rangeerror")
        ELSE IF mdhd.kind # "found" THEN GetConfigError(mdhd.kind)
        ELSE IF ~CanRead(buf, mdhd.result.start, 1) \/ ~CanRead(buf, tsPos, 4)
             THEN GetConfigError("rangeerror")
        ELSE IF stts.kind # "found" THEN GetConfigError(stts.kind)
        ELSE IF ~CanRead(buf, stts.result.start + 4, 4) THEN GetConfigError("rangeerror")
        ELSE IF loop.kind # "ok" THEN GetConfigError(loop.kind)
        ELSE IF ~CanRead(buf, avc1.result.start + 24, 4) THEN GetConfigError("rangeerror")
        ELSE [kind |-> "ok",
              config |-> [isNull |-> FALSE,
                          width |-> GetUint16(buf, avc1.result.start + 24),
                          height |-> GetUint16(buf, avc1.result.start + 26),
                          codec |-> Hex(GetUint8(buf, o + 1)) \o Hex(GetUint8(buf, o + 2))
                                    \o Hex(GetUint8(buf, o + 3)),
                          sps |-> Slice(buf, p1 + 2, p1 + 2 + spsLen),
                          pps |-> Slice(buf, p2 + 2, p2 + 2 + ppsLen),
                          timescale |-> timescale,
                          durations |-> loop.durations]]

ConfigWithAvcC(buf, mdia, stbl, avc1, avcC) ==
    IF avcC.kind # "found" THEN GetConfigError(avcC.kind)
    ELSE ConfigFromBoxes(buf, mdia, stbl, avc1, avcC)

\* getConfig() from the search for avcC on
ConfigFromAvc1(buf, mdia, stbl, avc1) ==
    ConfigWithAvcC(buf, mdia, stbl, avc1,
                   findBox(buf, avc1.result.start + 78, avc1.result.end, "avcC"))

\* getConfig() when this._config is null: the chain of findBox calls
\* moov > trak > mdia > minf > stbl > stsd > avc1 > avcC and the reads of the
\* view, each of which may throw
getConfig(buf) ==
    LET mdia == FindPath(buf, 0, Len(buf), <<In("moov"), In("trak"), In("mdia")>>)
    IN  IF mdia.kind # "found" THEN GetConfigError(mdia.kind)
        ELSE LET stbl == FindPath(buf, mdia.result.start, mdia.result.end,
                                  <<In("minf"), In("stbl")>>)
             IN  IF stbl.kind # "found" THEN GetConfigError(stbl.kind)
                 ELSE LET avc1 == FindPath(buf, stbl.result.start, stbl.result.end,
                                           <<In("stsd"), InAfter("avc1", 8)>>)
                      IN  IF avc1.kind # "found" THEN GetConfigError(avc1.kind)
                          ELSE ConfigFromAvc1(buf, mdia, stbl, avc1)

\* A getConfig() that forgets the cached configuration when it returns it
GetConfigResult_ClearsOnHit(cached, computed) ==
    IF ~cached.isNull THEN [kind |-> "ok", config |-> cached, cache |-> NoConfig]
    ELSE IF computed.kind = "ok"
    THEN [kind |-> "ok", config |-> computed.config, cache |-> computed.config]
    ELSE [kind |-> computed.kind, config |-> NoConfig, cache |-> cached]

\* getConfig(): "if (this._config) return this._config", else the computation,
\* whose last statement before the return assigns this._config; a throw leaves
\* this._config as it was.  cache is this._config after the call.
GetConfigResult(cached, computed) ==
    IF ~cached.isNull THEN [kind |-> "ok", config |-> cached, cache |-> cached]
    ELSE IF computed.kind = "ok"
    THEN [kind |-> "ok", config |-> computed.config, cache |-> computed.config]
    ELSE [kind |-> computed.kind, config |-> NoConfig, cache |-> cached]

\* SeiMetadata.decode(bytes) of the protobuf library: a message is a run of
\* fields, each a tag byte (field number * 8 + wire type) and its value, one
\* byte for wire type 0 and four little-endian bytes for wire type 5; any
\* other wire type, and a value cut short, make decode throw
RECURSIVE SeiMetadataDecode(_)
SeiMetadataDecode(bytes) ==
    IF bytes = <<>> THEN [threw |-> FALSE, fields |-> <<>>]
    ELSE LET tag   == bytes[1]
             wire  == tag % 8
             width == IF wire = 0 THEN 1 ELSE 4
         IN  IF wire \notin {0, 5} \/ Len(bytes) < 1 + width
             THEN [threw |-> TRUE, fields |-> <<>>]
             ELSE LET value == IF wire = 0 THEN bytes[2]
                               ELSE bytes[2] + 256 * (bytes[3] + 256 * (bytes[4] + 256 * (bytes[5] % 128)))
                      rest  == SeiMetadataDecode(SubSeq(bytes, 2 + width, Len(bytes)))
                  IN  IF rest.threw THEN rest
                      ELSE [threw |-> FALSE,
                            fields |-> <<[field |-> tag \div 8, value |-> value]>> \o rest.fields]

\* The loop of decodeSei: the index after the run of 0x42 bytes that starts at i
RECURSIVE MarkerEnd(_, _)
MarkerEnd(nal, i) ==
    IF i < Len(nal) /\ nal[i + 1] = 66 THEN MarkerEnd(nal, i + 1) ELSE i

\* decodeSei with the unit's final byte decoded as part of the record
decodeSei_KeepFinalByte(nal, SeiMetadata) ==
    IF ~SeiMetadata \/ Len(nal) < 4 THEN NullSei
    ELSE LET i == MarkerEnd(nal, 3)
         IN  IF i <= 3 \/ i + 1 >= Len(nal) \/ nal[i + 1] # 105 THEN NullSei
             ELSE LET d == SeiMetadataDecode(
                               stripEmulationBytes(Slice(nal, i + 1, Len(nal))))
                  IN  IF d.threw THEN NullSei ELSE SeiObject(d.fields)

\* decodeSei(nal, SeiMetadata); SeiMetadata is FALSE for null
decodeSei(nal, SeiMetadata) ==
    IF ~SeiMetadata \/ Len(nal) < 4 THEN NullSei
    ELSE LET i == MarkerEnd(nal, 3)
         IN  IF i <= 3 \/ i + 1 >= Len(nal) \/ nal[i + 1] # 105 THEN NullSei
             ELSE LET d == SeiMetadataDecode(
                               stripEmulationBytes(Slice(nal, i + 1, Len(nal) - 1)))
                  IN  IF d.threw THEN NullSei ELSE SeiObject(d.fields)

\* Math.max(a, b)
MathMax(a, b) == IF a >= b THEN a ELSE b

\* One pass of the loop of extractSeiMessages that ends the scan at a unit
\* whose decode returns null
ExtractSeiIter_StopAtNull(buf, cur, end, msgs, SeiMetadata) ==
    IF ~(cur + 4 <= end) THEN [kind |-> "done", cursor |-> cur, messages |-> msgs]
    ELSE IF ~CanRead(buf, cur, 4) THEN [kind |-> "rangeerror", cursor |-> cur, messages |-> msgs]
    ELSE LET nalSize == GetUint32(buf, cur)
             c       == cur + 4
         IN  IF nalSize < 2 \/ c + nalSize > Len(buf)
             THEN [kind |-> "next", cursor |-> c + MathMax(nalSize, 0), messages |-> msgs]
             ELSE IF GetUint8(buf, c) % 32 = 6 /\ GetUint8(buf, c + 1) = 5
             THEN LET sei == decodeSei(Slice(buf, c, c + nalSize), SeiMetadata)
                  IN  IF sei.isNull
                      THEN [kind |-> "done", cursor |-> c + nalSize, messages |-> msgs]
                      ELSE [kind |-> "next", cursor |-> c + nalSize, messages |-> Append(msgs, sei)]
             ELSE [kind |-> "next", cursor |-> c + nalSize, messages |-> msgs]

\* One pass of the loop of extractSeiMessages at cursor cur
ExtractSeiIter(buf, cur, end, msgs, SeiMetadata) ==
    IF ~(cur + 4 <= end) THEN [kind |-> "done", cursor |-> cur, messages |-> msgs]
    ELSE IF ~CanRead(buf, cur, 4) THEN [kind |-> "rangeerror", cursor |-> cur, messages |-> msgs]
    ELSE LET nalSize == GetUint32(buf, cur)
             c       == cur + 4
         IN  IF nalSize < 2 \/ c + nalSize > Len(buf)
             THEN [kind |-> "next", cursor |-> c + MathMax(nalSize, 0), messages |-> msgs]
             ELSE IF GetUint8(buf, c) % 32 = 6 /\ GetUint8(buf, c + 1) = 5
             THEN LET sei == decodeSei(Slice(buf, c, c + nalSize), SeiMetadata)
                  IN  [kind |-> "next", cursor |-> c + nalSize,
                       messages |-> IF sei.isNull THEN msgs ELSE Append(msgs, sei)]
             ELSE [kind |-> "next", cursor |-> c + nalSize, messages |-> msgs]

\* One pass of the loop of parseFrames that leaves pendingSei in place after
\* a frame has taken it
ParseFramesIter_KeepPending(buf, cur, end, st, SeiMetadata) ==
    IF ~(cur + 4 <= end) THEN [kind |-> "done", cursor |-> cur, st |-> st]
    ELSE IF ~CanRead(buf, cur, 4) THEN [kind |-> "rangeerror", cursor |-> cur, st |-> st]
    ELSE LET len == GetUint32(buf, cur)
             c   == cur + 4
         IN  IF len < 1 \/ c + len > Len(buf) THEN [kind |-> "done", cursor |-> c, st |-> st]
             ELSE LET type == GetUint8(buf, c) % 32
                      data == Slice(buf, c, c + len)
                      st2  == CASE type = 7 -> [st EXCEPT !.currentSps = data]
                                [] type = 8 -> [st EXCEPT !.currentPps = data]
                                [] type = 6 -> [st EXCEPT !.pendingSei = decodeSei(data, SeiMetadata)]
                                [] type = 5 \/ type = 1 ->
                                      [st EXCEPT !.frames = Append(@,
                                                    [index |-> Len(st.frames), keyframe |-> type = 5,
                                                     data |-> data, sei |-> st.pendingSei,
                                                     sps |-> st.currentSps, pps |-> st.currentPps])]
                                [] OTHER -> st
                  IN  [kind |-> "next", cursor |-> c + len, st |-> st2]

\* One pass of the loop of parseFrames at cursor cur; st holds the locals
\* frames, pendingSei, currentSps and currentPps
ParseFramesIter(buf, cur, end, st, SeiMetadata) ==
    IF ~(cur + 4 <= end) THEN [kind |-> "done", cursor |-> cur, st |-> st]
    ELSE IF ~CanRead(buf, cur, 4) THEN [kind |-> "rangeerror", cursor |-> cur, st |-> st]
    ELSE LET len == GetUint32(buf, cur)
             c   == cur + 4
         IN  IF len < 1 \/ c + len > Len(buf) THEN [kind |-> "done", cursor |-> c, st |-> st]
             ELSE LET type == GetUint8(buf, c) % 32
                      data == Slice(buf, c, c + len)
                      st2  == CASE type = 7 -> [st EXCEPT !.currentSps = data]
                                [] type = 8 -> [st EXCEPT !.currentPps = data]
                                [] type = 6 -> [st EXCEPT !.pendingSei = decodeSei(data, SeiMetadata)]
                                [] type = 5 \/ type = 1 ->
                                      [st EXCEPT !.frames = Append(@,
                                                    [index |-> Len(st.frames), keyframe |-> type = 5,
                                                     data |-> data, sei |-> st.pendingSei,
                                                     sps |-> st.currentSps, pps |-> st.currentPps]),
                                                 !.pendingSei = NullSei]
                                [] OTHER -> st
                  IN  [kind |-> "next", cursor |-> c + len, st |-> st2]

-----------------------------------------------------------------------------
(* SpecDecodeSei: decodeSei called on every unit of type 6 with up to
   MaxNalLen bytes after its 3-byte preamble, with and without the schema *)

\* Marker, discriminator, the bytes of an escape sequence (0 is also the tag of
\* a one-byte field) and the trailing byte
NalBytes == {66, 105, 0, 3, 128}

\* The units: nothing but a short preamble, and the full preamble followed by
\* any bytes
DecodeNals ==
    { <<6>>, <<6, 5>> } \cup
    UNION { { <<6, 5, n>> \o tail : tail \in [1..n -> NalBytes] } : n \in 0..MaxNalLen }

DecodeSeiInit ==
    /\ lastDecode = NoDecode
    /\ buffer = <<>>
    /\ scanCall = NoScan
    /\ cursor = 0
    /\ scanEnd = 0
    /\ messages = <<>>
    /\ frames = <<>>
    /\ pendingSei = NullSei
    /\ currentSps = <<>>
    /\ currentPps = <<>>
    /\ cachedConfig = NoConfig
    /\ fbStart = 0
    /\ fbEnd = 0
    /\ fbName = "none"
    /\ fbPos = 0
    /\ fbState = "idle"
    /\ fbResult = NoRange
    /\ fbRawSize = 0
    /\ telemetryIndex = <<>>
    /\ frameRate = Num(DefaultFrameRate)
    /\ duration = Num(0)
    /\ builds = 0
    /\ lastBuild = NoBuild
    /\ lastQuery = NoQuery
    /\ stripData = <<>>
    /\ stripOnce = <<>>
    /\ stripTwice = <<>>
    /\ stripPc = "idle"
    /\ parseGeneration = 0
    /\ currentFile = NoFile
    /\ telemetryData = NullData
    /\ parserWorker = 0
    /\ protobufLoaded = FALSE
    /\ video = [src |-> NoFile, state |-> "idle", duration |-> Num(0)]
    /\ calls = <<>>
    /\ ui = InitialUi
    /\ workerApi = TRUE

\* decodeSei(nal, SeiMetadata) is called on a unit; one call per behaviour,
\* as the function keeps no state
DecodeSeiCall ==
    /\ ~lastDecode.called
    /\ \E nal \in DecodeNals, sm \in BOOLEAN :
         \* decodeSei has no throw statement and catches what decode throws
         lastDecode' = [nal |-> nal, SeiMetadata |-> sm, ret |-> decodeSei(nal, sm),
                        called |-> TRUE, outcome |-> "returned"]
    /\ UNCHANGED <<scanCall, cursor, scanEnd, messages, frames, pendingSei, currentSps,
                   currentPps, cachedConfig>>
    /\ UNCHANGED <<decVars, stripVars, boxVars, appVars>>

DecodeSeiNext == DecodeSeiCall

SpecDecodeSei == DecodeSeiInit /\ [][DecodeSeiNext]_vars

-----------------------------------------------------------------------------
(* SpecScan: a DashcamMP4 object over one file, and parseFrames,
   extractSeiMessages and decodeSei calls on it *)

\* A unit of the media data: the 4-byte length prefix and the unit's bytes
Unit(nal) == U32(Len(nal)) \o nal

\* Metadata units (type 6): decodable ones with one and two marker bytes, one
\* with an escaped fixed-width field whose payload makes decode throw, and a
\* decodable one whose second byte is not 5
SeiNals ==
    { <<6, 5, 2, 66, 105, 8, 1, 128>>,
      <<6, 5, 3, 66, 66, 105, 8, 2, 128>>,
      <<6, 5, 6, 66, 105, 13, 0, 0, 3, 1, 128>>,
      <<6, 4, 2, 66, 105, 8, 3, 128>> }

\* Key and delta frame units, parameter sets
FrameNals == { <<101, 9>>, <<65, 9>> }
ParameterNals == { <<103, 1>>, <<104, 2>> }

\* What a file holds between units: whole units, a unit whose length prefix
\* passes the end of the file, a zero length prefix
UnitShapes ==
    { Unit(nal) : nal \in SeiNals \cup FrameNals \cup ParameterNals }
        \cup { U32(50) \o <<6, 5>>, U32(0) }

\* A moov box with everything getConfig reads, as its 216 bytes:
\*   moov > trak > mdia > { mdhd (version 0, time scale 1000),
\*                          minf > stbl > { stsd > avc1 (64 x 48) > avcC (profile
\*                          42 00 1e, a 2-byte SPS 67 07, a 1-byte PPS 68),
\*                          stts (1 entry: 2 frames of 33 ticks) } }
MoovBox ==
    << 0, 0, 0, 216, 109, 111, 111, 118, 0, 0, 0, 208, 116, 114, 97, 107,
       0, 0, 0, 200, 109, 100, 105, 97, 0, 0, 0, 28, 109, 100, 104, 100,
       0, 0, 0, 0, 0, 0, 0, 0, 0, 0, 0, 0, 0, 0, 3, 232,
       0, 0, 0, 0, 0, 0, 0, 164, 109, 105, 110, 102, 0, 0, 0, 156,
       115, 116, 98, 108, 0, 0, 0, 124, 115, 116, 115, 100, 0, 0, 0, 0,
       0, 0, 0, 1, 0, 0, 0, 108, 97, 118, 99, 49, 0, 0, 0, 0,
       0, 0, 0, 0, 0, 0, 0, 0, 0, 0, 0, 0, 0, 0, 0, 0,
       0, 0, 0, 0, 0, 64, 0, 48, 0, 0, 0, 0, 0, 0, 0, 0,
       0, 0, 0, 0, 0, 0, 0, 0, 0, 0, 0, 0, 0, 0, 0, 0,
       0, 0, 0, 0, 0, 0, 0, 0, 0, 0, 0, 0, 0, 0, 0, 0,
       0, 0, 0, 0, 0, 0, 0, 0, 0, 0, 0, 0, 0, 22, 97, 118,
       99, 67, 1, 66, 0, 30, 255, 225, 0, 2, 103, 7, 1, 0, 1, 104,
       0, 0, 0, 24, 115, 116, 116, 115, 0, 0, 0, 0, 0, 0, 0, 1,
       0, 0, 0, 2, 0, 0, 0, 33 >>

\* The files: media data followed by moov, and a file cut short, whose mdat
\* header declares more bytes than the file holds
ScanFiles(units) ==
    { Box32("mdat", units) \o MoovBox,
      MoovBox \o U32(8 + Len(units) + 64) \o TypeCode("mdat") \o units }

\* Every file of up to MaxUnits units, and one file without moov
ScanBuffers ==
    UNION { UNION { ScanFiles(Concat(us)) : us \in [1..n -> UnitShapes] } : n \in 0..MaxUnits }
        \cup { Box32("mdat", <<>>) }

ScanInit ==
    /\ buffer \in ScanBuffers
    /\ scanCall = NoScan
    /\ cursor = 0
    /\ scanEnd = 0
    /\ messages = <<>>
    /\ frames = <<>>
    /\ pendingSei = NullSei
    /\ currentSps = <<>>
    /\ currentPps = <<>>
    /\ cachedConfig = NoConfig
    /\ lastDecode = NoDecode
    /\ fbStart = 0
    /\ fbEnd = Len(buffer)
    /\ fbName = "none"
    /\ fbPos = 0
    /\ fbState = "idle"
    /\ fbResult = NoRange
    /\ fbRawSize = 0
    /\ telemetryIndex = <<>>
    /\ frameRate = Num(DefaultFrameRate)
    /\ duration = Num(0)
    /\ builds = 0
    /\ lastBuild = NoBuild
    /\ lastQuery = NoQuery
    /\ stripData = <<>>
    /\ stripOnce = <<>>
    /\ stripTwice = <<>>
    /\ stripPc = "idle"
    /\ parseGeneration = 0
    /\ currentFile = NoFile
    /\ telemetryData = NullData
    /\ parserWorker = 0
    /\ protobufLoaded = FALSE
    /\ video = [src |-> NoFile, state |-> "idle", duration |-> Num(0)]
    /\ calls = <<>>
    /\ ui = InitialUi
    /\ workerApi = TRUE

\* extractSeiMessages(SeiMetadata) is called: findMdat and the locals
ExtractSeiCall ==
    /\ scanCall.state # "scan"
    /\ \E sm \in BOOLEAN :
         LET mdat == findMdat(buffer)
         IN  IF mdat.kind # "found"
             THEN /\ scanCall' = [op |-> "extractSeiMessages", SeiMetadata |-> sm, state |-> mdat.kind]
                  /\ UNCHANGED <<cursor, scanEnd, messages>>
             ELSE /\ scanCall' = [op |-> "extractSeiMessages", SeiMetadata |-> sm, state |-> "scan"]
                  /\ cursor' = mdat.offset
                  /\ scanEnd' = mdat.offset + mdat.size
                  /\ messages' = <<>>
    /\ UNCHANGED <<frames, pendingSei, currentSps, currentPps, cachedConfig, lastDecode>>
    /\ UNCHANGED <<decVars, stripVars, boxVars, appVars>>

\* One pass of the loop of extractSeiMessages, or its return
ExtractSeiStep ==
    /\ scanCall.op = "extractSeiMessages"
    /\ scanCall.state = "scan"
    /\ LET it == ExtractSeiIter(buffer, cursor, scanEnd, messages, scanCall.SeiMetadata)
       IN  /\ scanCall' = [scanCall EXCEPT !.state = IF it.kind = "next" THEN "scan" ELSE it.kind]
           /\ cursor' = it.cursor
           /\ messages' = it.messages
    /\ UNCHANGED <<scanEnd, frames, pendingSei, currentSps, currentPps, cachedConfig, lastDecode>>
    /\ UNCHANGED <<decVars, stripVars, boxVars, appVars>>

\* parseFrames(SeiMetadata) from the return of getConfig() on: got is what
\* getConfig returned or threw, mdat what findMdat does
ParseFramesEntry(sm, got, mdat) ==
    IF got.kind # "ok"
    THEN /\ scanCall' = [op |-> "parseFrames", SeiMetadata |-> sm, state |-> got.kind]
         /\ cachedConfig' = got.cache
         /\ UNCHANGED <<cursor, scanEnd, frames, pendingSei, currentSps, currentPps>>
    ELSE IF mdat.kind # "found"
    THEN /\ scanCall' = [op |-> "parseFrames", SeiMetadata |-> sm, state |-> mdat.kind]
         /\ cachedConfig' = got.cache
         /\ UNCHANGED <<cursor, scanEnd, frames, pendingSei, currentSps, currentPps>>
    ELSE /\ scanCall' = [op |-> "parseFrames", SeiMetadata |-> sm, state |-> "scan"]
         /\ cachedConfig' = got.cache
         /\ cursor' = mdat.offset
         /\ scanEnd' = mdat.offset + mdat.size
         /\ frames' = <<>>
         /\ pendingSei' = NullSei
         /\ currentSps' = got.config.sps
         /\ currentPps' = got.config.pps

\* parseFrames(SeiMetadata) is called: getConfig, findMdat and the locals
ParseFramesCall ==
    /\ scanCall.state # "scan"
    /\ \E sm \in BOOLEAN :
         ParseFramesEntry(sm, GetConfigResult(cachedConfig, getConfig(buffer)),
                          findMdat(buffer))
    /\ UNCHANGED <<messages, lastDecode>>
    /\ UNCHANGED <<decVars, stripVars, boxVars, appVars>>

\* One pass of the loop of parseFrames, or its return
ParseFramesStep ==
    /\ scanCall.op = "parseFrames"
    /\ scanCall.state = "scan"
    /\ LET st == [frames |-> frames, pendingSei |-> pendingSei,
                  currentSps |-> currentSps, currentPps |-> currentPps]
           it == ParseFramesIter(buffer, cursor, scanEnd, st, scanCall.SeiMetadata)
       IN  /\ scanCall' = [scanCall EXCEPT !.state = IF it.kind = "next" THEN "scan" ELSE it.kind]
           /\ cursor' = it.cursor
           /\ frames' = it.st.frames
           /\ pendingSei' = it.st.pendingSei
           /\ currentSps' = it.st.currentSps
           /\ currentPps' = it.st.currentPps
    /\ UNCHANGED <<scanEnd, messages, cachedConfig, lastDecode>>
    /\ UNCHANGED <<decVars, stripVars, boxVars, appVars>>

\* getConfig() is called on its own, as parseMP4 of the worker and
\* parseFileDirectly do after extractSeiMessages
GetConfigEntry(got) ==
    /\ scanCall' = [op |-> "getConfig", SeiMetadata |-> FALSE, state |-> got.kind]
    /\ cachedConfig' = got.cache

GetConfigCall ==
    /\ scanCall.state # "scan"
    /\ GetConfigEntry(GetConfigResult(cachedConfig, getConfig(buffer)))
    /\ UNCHANGED <<cursor, scanEnd, messages, frames, pendingSei, currentSps, currentPps,
                   lastDecode>>
    /\ UNCHANGED <<decVars, stripVars, boxVars, appVars>>

ScanNext ==
    \/ ExtractSeiCall \/ ExtractSeiStep \/ ParseFramesCall \/ ParseFramesStep
    \/ GetConfigCall

SpecScan == ScanInit /\ [][ScanNext]_vars

\* The position (from 1) of the 0x69 discriminator that follows the run of
\* 0x42 marker bytes after the 3-byte preamble, 0 when the unit has none
DiscriminatorAt(nal) ==
    IF \E k \in 5..Len(nal) : nal[k] = 105 /\ \A j \in 4..(k - 1) : nal[j] = 66
    THEN CHOOSE k \in 5..Len(nal) : nal[k] = 105 /\ \A j \in 4..(k - 1) : nal[j] = 66
    ELSE 0

\* What schema decoding makes of the stripped bytes between position k and the
\* final byte of the unit
DecodedAfter(nal, k) ==
    SeiMetadataDecode(stripEmulationBytes(SubSeq(nal, k + 1, Len(nal) - 1)))

\* C12 as stated: with the schema loaded decodeSei returns null for a unit
\* shorter than 4 bytes, for a unit without the 0x69 discriminator after the
\* leading 0x42 marker bytes and when schema decoding throws, and otherwise
\* the record decoded from the stripped bytes between the discriminator and
\* the final byte.
C12_NullOnlyInTheThreeCases ==
    (lastDecode.called /\ lastDecode.SeiMetadata) =>
        LET nal == lastDecode.nal
            k   == DiscriminatorAt(nal)
        IN  lastDecode.ret =
                IF Len(nal) < 4 \/ k = 0 \/ DecodedAfter(nal, k).threw
                THEN NullSei
                ELSE SeiObject(DecodedAfter(nal, k).fields)

\* C12: with the schema loaded decodeSei returns null for a unit shorter than
\* 4 bytes, for a unit without the 0x69 discriminator after the leading 0x42
\* marker bytes, for a unit whose discriminator is its final byte, and when
\* schema decoding throws; otherwise it returns the record decoded from the
\* stripped bytes between the discriminator and the final byte (excluded).
C12_NullCasesAndDecodedRecord ==
    (lastDecode.called /\ lastDecode.SeiMetadata) =>
        LET nal == lastDecode.nal
            k   == DiscriminatorAt(nal)
        IN  lastDecode.ret =
                IF Len(nal) < 4 \/ k = 0 \/ k = Len(nal) \/ DecodedAfter(nal, k).threw
                THEN NullSei
                ELSE SeiObject(DecodedAfter(nal, k).fields)

\* C12 witness: a unit whose payload between discriminator and final byte is
\* an escape sequence was decoded to a record with the schema loaded
C12_Witness ==
    /\ lastDecode.called
    /\ lastDecode.SeiMetadata
    /\ ~lastDecode.ret.isNull
    /\ LET k == DiscriminatorAt(lastDecode.nal)
       IN  /\ k > 0
           /\ Len(lastDecode.nal) = k + 4
           /\ SubSeq(lastDecode.nal, k + 1, k + 3) = <<0, 0, 3>>

\* A unit whose payload makes schema decoding throw gave null
C12_WitnessThrow ==
    /\ lastDecode.called
    /\ lastDecode.SeiMetadata
    /\ lastDecode.ret.isNull
    /\ DiscriminatorAt(lastDecode.nal) \in 5..(Len(lastDecode.nal) - 1)
    /\ DecodedAfter(lastDecode.nal, DiscriminatorAt(lastDecode.nal)).threw

\* C13: a decodeSei call made while the schema is not loaded ends with a
\* thrown error; it never returns a value.
C13_FailsBeforeSchemaLoaded ==
    (lastDecode.called /\ ~lastDecode.SeiMetadata) => lastDecode.outcome = "throw"

\* The loop is about to read, at cur, a length prefix whose unit would pass
\* the end of the buffer
TruncatedAt(cur) ==
    /\ scanCall.state = "scan"
    /\ cur + 4 <= scanEnd
    /\ CanRead(buffer, cur, 4)
    /\ cur + 4 + GetUint32(buffer, cur) > Len(buffer)

\* C14: in both modes the pass of the loop that meets a unit whose length
\* prefix passes the end of the buffer collects nothing and ends the scan: the
\* call has returned, or its loop condition is false so that it returns next,
\* without an error.
C14_TruncationStops ==
    [][ TruncatedAt(cursor) =>
          /\ messages' = messages
          /\ frames' = frames
          /\ \/ scanCall'.state = "done"
             \/ scanCall'.state = "scan" /\ ~(cursor' + 4 <= scanEnd') ]_vars

\* The same for parseFrames alone
C14_TruncationStopsPlayback ==
    [][ (TruncatedAt(cursor) /\ scanCall.op = "parseFrames") =>
          /\ frames' = frames
          /\ scanCall'.state = "done" ]_vars

\* The units of the buffer whose length prefix starts at cur or later and
\* before stop, in order: each is the bytes its length prefix announces; a
\* unit that would pass the end of the buffer ends the list
RECURSIVE RegionUnits(_, _, _)
RegionUnits(buf, cur, stop) ==
    IF cur + 4 > stop \/ ~CanRead(buf, cur, 4) THEN <<>>
    ELSE LET len == GetUint32(buf, cur)
         IN  IF cur + 4 + len > Len(buf) THEN <<>>
             ELSE <<SubSeq(buf, cur + 5, cur + 4 + len)>> \o RegionUnits(buf, cur + 4 + len, stop)

IsMetadataUnit(nal) == Len(nal) >= 1 /\ nal[1] % 32 = 6
IsUserDataUnit(nal) == Len(nal) >= 2 /\ nal[1] % 32 = 6 /\ nal[2] = 5

\* The non-null decodes of a list of units, in the order of the list
RECURSIVE DecodedRecords(_, _)
DecodedRecords(units, SeiMetadata) ==
    IF units = <<>> THEN <<>>
    ELSE LET sei == decodeSei(Head(units), SeiMetadata)
         IN  (IF sei.isNull THEN <<>> ELSE <<sei>>) \o DecodedRecords(Tail(units), SeiMetadata)

\* The units the running call has gone through so far, all units of the media
\* data once it has returned
ScannedUnits ==
    RegionUnits(buffer, findMdat(buffer).offset,
                IF scanCall.state = "done" THEN scanEnd ELSE cursor)

C15_WitnessFrameIgnored ==
    /\ scanCall.op = "extractSeiMessages"
    /\ scanCall.state = "done"
    /\ Len(messages) = 1
    /\ Len(ScannedUnits) >= 2
    /\ ~IsMetadataUnit(ScannedUnits[1])

IsFrameUnit(nal) == Len(nal) >= 1 /\ nal[1] % 32 \in {1, 5}

\* The units parseFrames has gone through so far
PlayedUnits == RegionUnits(buffer, findMdat(buffer).offset, cursor)

\* The position in units of the k-th frame unit, 0 for k = 0
FrameUnitAt(units, k) ==
    IF k = 0 THEN 0
    ELSE CHOOSE j \in 1..Len(units) :
            /\ IsFrameUnit(units[j])
            /\ Cardinality({i \in 1..j : IsFrameUnit(units[i])}) = k

\* What the metadata units at positions from + 1 .. to - 1 leave pending: the
\* decode of the last of them, nothing when there is none
PendingBetween(units, from, to, SeiMetadata) ==
    LET M == {m \in (from + 1)..(to - 1) : IsMetadataUnit(units[m])}
    IN  IF M = {} THEN NullSei
        ELSE decodeSei(units[CHOOSE m \in M : \A n \in M : n <= m], SeiMetadata)

\* C16: at every pass of parseFrames there is one frame per frame unit gone
\* through, each frame carries the decode of the last metadata unit between
\* the previous frame unit and its own (so the later of two wins and a unit
\* taken by one frame is not carried by the next), a frame with no metadata
\* unit since the previous frame carries none, and the one pending value is
\* what the metadata units after the last frame unit leave.
C16_FrameCarriesLatestSincePreviousFrame ==
    (scanCall.op = "parseFrames" /\ scanCall.state \in {"scan", "done"}) =>
        LET units == PlayedUnits
            n     == Cardinality({j \in 1..Len(units) : IsFrameUnit(units[j])})
        IN  /\ Len(frames) = n
            /\ \A k \in 1..n :
                  /\ frames[k].data = units[FrameUnitAt(units, k)]
                  /\ frames[k].sei = PendingBetween(units, FrameUnitAt(units, k - 1),
                                                    FrameUnitAt(units, k), scanCall.SeiMetadata)
            /\ pendingSei = PendingBetween(units, FrameUnitAt(units, n), Len(units) + 1,
                                           scanCall.SeiMetadata)

\* C16 witness: two different metadata units preceded a frame and the frame
\* carries the later one
C16_Witness ==
    /\ scanCall.op = "parseFrames"
    /\ scanCall.state = "done"
    /\ Len(frames) = 1
    /\ Len(PlayedUnits) = 3
    /\ IsMetadataUnit(PlayedUnits[1])
    /\ IsMetadataUnit(PlayedUnits[2])
    /\ ~decodeSei(PlayedUnits[1], TRUE).isNull
    /\ ~frames[1].sei.isNull
    /\ frames[1].sei # decodeSei(PlayedUnits[1], TRUE)

\* A metadata unit was followed by two frames: the first carries it, the
\* second carries none
C16_WitnessOnce ==
    /\ scanCall.op = "parseFrames"
    /\ scanCall.state = "done"
    /\ Len(frames) = 2
    /\ ~frames[1].sei.isNull
    /\ frames[2].sei.isNull

\* C29: both scanning loops terminate and take no unit that passes the end of
\* the media-data region: a pass that neither returns nor throws moves the
\* cursor forward, and a unit the pass decodes or stores (a type-6 unit with
\* payload type 5 for extractSeiMessages; a parameter set, a type-6 unit or a
\* frame for parseFrames) ends at or before mdat.offset + mdat.size.
C29_UnitsInsideRegion ==
    (scanCall.state = "scan" /\ cursor + 4 <= scanEnd /\ CanRead(buffer, cursor, 4)) =>
        LET len   == GetUint32(buffer, cursor)
            c     == cursor + 4
            taken == IF scanCall.op = "extractSeiMessages"
                     THEN /\ len >= 2
                          /\ c + len <= Len(buffer)
                          /\ GetUint8(buffer, c) % 32 = 6
                          /\ GetUint8(buffer, c + 1) = 5
                     ELSE /\ len >= 1
                          /\ c + len <= Len(buffer)
                          /\ GetUint8(buffer, c) % 32 \in {1, 5, 6, 7, 8}
            next  == IF scanCall.op = "extractSeiMessages"
                     THEN ExtractSeiIter(buffer, cursor, scanEnd, messages,
                                         scanCall.SeiMetadata).cursor
                     ELSE c + len
        IN  /\ next > cursor
            /\ taken => c + len <= scanEnd

\* C24: getConfig is idempotent and cached.  Once this._config is set, no call
\* changes it, and a getConfig call that succeeded leaves in it the
\* configuration read from the buffer, which is what the call returned; after a
\* call that failed because a box is absent nothing is cached.
C24_ConfigCachedOnce ==
    /\ [][~cachedConfig.isNull => cachedConfig' = cachedConfig]_vars
    /\ [](scanCall.op = "getConfig" =>
            IF scanCall.state = "ok"
            THEN /\ ~cachedConfig.isNull
                 /\ cachedConfig = getConfig(buffer).config
            ELSE cachedConfig.isNull)

\* C24 witness: getConfig has returned the cached configuration after a
\* parseFrames call on the same parser had computed it and collected frames.
C24_Witness ==
    /\ scanCall.op = "getConfig"
    /\ scanCall.state = "ok"
    /\ frames # <<>>
    /\ cachedConfig.width = 64
    /\ cachedConfig.durations = <<Num(33), Num(33)>>

\* C24 witness: getConfig threw on a file without moov and cached nothing.
C24_WitnessAbsent ==
    /\ scanCall.op = "getConfig"
    /\ scanCall.state = "notfound"
    /\ cachedConfig.isNull

-----------------------------------------------------------------------------
(* Spec: the application.  File selections, video element events, protobuf *)
(* initialisation, FileReader completions, the worker's steps and the       *)
(* dispatch of its messages happen in any order the event loop allows.      *)

\* The files a user can select: A holds one telemetry record, B is a valid
\* video without SEI records, C has no mdat box (extractSeiMessages throws).
FileIds == {"A", "B", "C"}

\* A selection FileLoader.validateFile refuses: the callback gets {error}
InvalidFile == "invalid"

\* parser.extractSeiMessages(SeiMetadata) on the bytes of file f
FileSei(f) ==
    IF f = "A"
    THEN << WithUid([vehicleSpeedMps |-> Num(10), latitudeDeg |-> Num(59),
                     longitudeDeg |-> Num(18)], <<f, 1>>) >>
    ELSE <<>>

\* parser.getConfig() on the bytes of file f
FileConfig(f) == Config(<<Num(20)>>)

\* The object parseMP4 / parseFileDirectly build from the bytes of file f;
\* bytesOf records whose bytes they were.
ParseResult(f) ==
    [ seiMessages  |-> FileSei(f),
      config       |-> FileConfig(f),
      hasTelemetry |-> Len(FileSei(f)) > 0,
      bytesOf      |-> f ]

NoResult == [seiMessages |-> <<>>, config |-> NullConfig, hasTelemetry |-> FALSE,
             bytesOf |-> NoFile]

\* Messages the worker posts (mp4-worker.js)
Progress(percentage, message) ==
    [type |-> "progress", percentage |-> percentage, message |-> message, data |-> NoResult]
Complete(result) ==
    [type |-> "complete", percentage |-> 0, message |-> "", data |-> result]
ErrorMessage(message) ==
    [type |-> "error", percentage |-> 0, message |-> message, data |-> NoResult]

\* A worker that reports the last progress step after it has sent the result
WorkerOutput_ProgressAfterComplete(f) ==
    IF f = "C"
    THEN << Progress(25, "Parsing MP4 structure..."),
            Progress(50, "Extracting telemetry data..."),
            ErrorMessage("MP4 parsing failed") >>
    ELSE << Progress(25, "Parsing MP4 structure..."),
            Progress(50, "Extracting telemetry data..."),
            Progress(75, "Processing metadata..."),
            Complete(ParseResult(f)),
            Progress(100, "Complete") >>

\* What parseMP4 followed by the handler's postMessage puts on the wire for the
\* bytes of file f: four progress messages and the result, or the progress
\* messages sent before findMdat throws and then the error
WorkerOutput(f) ==
    IF f = "C"
    THEN << Progress(25, "Parsing MP4 structure..."),
            Progress(50, "Extracting telemetry data..."),
            ErrorMessage("MP4 parsing failed") >>
    ELSE << Progress(25, "Parsing MP4 structure..."),
            Progress(50, "Extracting telemetry data..."),
            Progress(75, "Processing metadata..."),
            Progress(100, "Complete"),
            Complete(ParseResult(f)) >>

\* The onProgress calls of parseFileDirectly's reader.onload for file f, and
\* whether it resolves
DirectProgress(f) ==
    IF f = "C"
    THEN << Progress(25, "Reading file..."), Progress(50, "Parsing MP4...") >>
    ELSE << Progress(25, "Reading file..."), Progress(50, "Parsing MP4..."),
            Progress(75, "Processing telemetry..."), Progress(100, "Complete") >>

DirectResolves(f) == f # "C"

\* ---- page helpers of TeslaDashcamApp
showLoading(u, message)    == [u EXCEPT !.loading = TRUE, !.message = message]
hideLoading(u)             == [u EXCEPT !.loading = FALSE]
updateProgressBar(u, pct)  == [u EXCEPT !.progressHidden = FALSE, !.progressFill = pct]
hideProgressBar(u)         == [u EXCEPT !.progressHidden = TRUE]
showError(u, title)        == [u EXCEPT !.error = title]
hideError(u)               == [u EXCEPT !.error = "hidden"]
showVideoSection(u)        == [u EXCEPT !.videoSection = TRUE]
updateVideoMetadata(u)     == [u EXCEPT !.status = [text |-> "Checking...", frames |-> 0]]

\* One handleFileSelected call: where its async function stands, what
\* parseTelemetryData captured, and the FileReader and Worker that
\* parseFileWithWorker / parseFileDirectly created for it.
NewCall(fileData, pc) ==
    [ fileData   |-> fileData,   \* the argument
      pc         |-> pc,         \* "rejected" | "loadVideo" | "videoError" | "noFile" |
                                 \* "initProtobuf" | "parseFile" | "applied" |
                                 \* "failed" | "stale"
      generation |-> 0,          \* const generation (app.js:203)
      file       |-> NoFile,     \* this.currentFile.file given to parseFile
      reader     |-> "none",     \* "none" | "reading" | "done" | "error"
      worker     |-> "none",     \* "none" | "live" | "terminated"
      sei        |-> FALSE,      \* the worker's own SeiMetadata is set
      inbox      |-> <<>>,       \* buffers posted to the worker, not yet received
      pending    |-> <<>>,       \* buffers whose handler awaits initializeProtobuf
      outbox     |-> <<>>,       \* messages posted by the worker, not yet dispatched
      discarded  |-> {} ]        \* callbacks dropped by the generation check

\* worker.terminate(): the worker stops; what it had posted may still arrive
Terminate(cs, w) ==
    IF w = 0 THEN cs
    ELSE [cs EXCEPT ![w].worker = "terminated", ![w].inbox = <<>>, ![w].pending = <<>>]

\* this._parseGeneration !== generation (app.js:211, 218, 271)
IsStale_Never(generation, current) == FALSE

IsStale(generation, current) == current # generation

\* loadingMessage.textContent: a fixed text, or `${message} (${percentage}%)`
Plain(text)   == [text |-> text, percentage |-> -1]
Formatted(m)  == [text |-> m.message, percentage |-> m.percentage]

MaxSelections == 2   \* handleFileSelected calls in one behaviour

\* The application after construction (app.js:15-26, mp4-parser.js:8-12,
\* telemetry-decoder.js:27-31), in a browser with or without Worker
AppInit ==
    /\ parseGeneration = 0
    /\ currentFile = NoFile
    /\ telemetryData = NullData
    /\ parserWorker = 0
    /\ protobufLoaded = FALSE
    /\ video = [src |-> NoFile, state |-> "idle", duration |-> Num(0)]
    /\ calls = <<>>
    /\ ui = InitialUi
    /\ scanCall = NoScan
    /\ cursor = 0
    /\ scanEnd = 0
    /\ messages = <<>>
    /\ frames = <<>>
    /\ pendingSei = NullSei
    /\ currentSps = <<>>
    /\ currentPps = <<>>
    /\ cachedConfig = NoConfig
    /\ lastDecode = NoDecode
    /\ workerApi \in BOOLEAN
    /\ telemetryIndex = <<>>
    /\ frameRate = Num(DefaultFrameRate)
    /\ duration = Num(0)
    /\ builds = 0
    /\ lastBuild = NoBuild
    /\ lastQuery = NoQuery
    /\ stripData = <<>>
    /\ stripOnce = <<>>
    /\ stripTwice = <<>>
    /\ stripPc = "idle"
    /\ buffer = <<>>
    /\ fbStart = 0
    /\ fbEnd = 0
    /\ fbName = "none"
    /\ fbPos = 0
    /\ fbState = "idle"
    /\ fbResult = NoRange
    /\ fbRawSize = 0

\* The calls whose loadVideo promise is pending
Pending == { k \in DOMAIN calls : calls[k].pc = "loadVideo" }

Max(S) == CHOOSE m \in S : \A j \in S : j <= m

\* initializeMap (app.js:577-614): a controller is created when some record has
\* valid GPS; otherwise app.mapController keeps its value
MapAfter(index, old) ==
    IF \E j \in 1..Len(index) : index[j].value.gps.isValid THEN TRUE ELSE old

\* A catch block that reports the parse failure as handleFileSelected reports a
\* video that failed to load: with the error dialog
TelemetryFailed_ShowsError(u) ==
    showError(hideProgressBar(hideLoading(u)), "Video Loading Error")

\* The catch block of parseTelemetryData for the current generation
\* (app.js:273-286): indicator and progress bar hidden, the telemetry status
\* set to 'Error' when the element exists, a console warning, no dialog
TelemetryFailed(u) ==
    LET u1 == hideProgressBar(hideLoading(u))
    IN  IF u.status.text # "absent"
        THEN [u1 EXCEPT !.status = [text |-> "Error", frames |-> 0]]
        ELSE u1

\* parseTelemetryData after its await (app.js:217-287) in call k, whose parseFile
\* promise was resolved with result (resolved) or rejected; cs and u are the
\* calls and the page as the event handler left them.  A promise that is already
\* settled ignores the second resolve / reject.
Continue(k, resolved, result, cs, u) ==
    IF cs[k].pc \notin {"initProtobuf", "parseFile"}
    THEN /\ calls' = cs
         /\ ui' = u
         /\ UNCHANGED <<telemetryData, telemetryIndex, frameRate, duration>>
    ELSE IF IsStale(cs[k].generation, parseGeneration)
    THEN /\ calls' = [cs EXCEPT ![k].pc = "stale",
                                ![k].discarded = @ \cup {IF resolved THEN "result" ELSE "error"}]
         /\ ui' = u
         /\ UNCHANGED <<telemetryData, telemetryIndex, frameRate, duration>>
    ELSE IF resolved
    THEN LET u1        == hideProgressBar(hideLoading(u))
             hasStatus == u.status.text # "absent"
             index     == BuildIndexMap(telemetryIndex, result.seiMessages,
                                        result.config, frameRate)
         IN  /\ calls' = [cs EXCEPT ![k].pc = "applied"]
             /\ telemetryData' = [isNull |-> FALSE, result |-> result,
                                  selected |-> currentFile]
             /\ IF hasStatus /\ result.hasTelemetry
                THEN /\ telemetryIndex' = index
                     /\ frameRate' = FrameRateFor(result.config, frameRate)
                     /\ duration' = video.duration
                     /\ ui' = [u1 EXCEPT !.status = [text |-> "Available", frames |-> Len(index)],
                                         !.dashboard = TRUE,
                                         !.map = MapAfter(index, @),
                                         !.timeline = TRUE]
                ELSE /\ UNCHANGED <<telemetryIndex, frameRate, duration>>
                     /\ ui' = IF hasStatus
                              THEN [u1 EXCEPT !.status = [text |-> "Not available", frames |-> 0]]
                              ELSE u1
    ELSE /\ calls' = [cs EXCEPT ![k].pc = "failed"]
         /\ ui' = TelemetryFailed(u)
         /\ UNCHANGED <<telemetryData, telemetryIndex, frameRate, duration>>

\* parseFileWithWorker / parseFileDirectly up to readAsArrayBuffer: the Worker
\* (when the browser has one) and the FileReader of the call exist
StartReading(c) ==
    [c EXCEPT !.pc = "parseFile", !.reader = "reading",
              !.worker = IF workerApi THEN "live" ELSE "none"]

\* handleFileSelected(fileData) up to its first await (app.js:159-180)
HandleFileSelected ==
    /\ Len(calls) < MaxSelections
    /\ \E fileData \in FileIds \cup {InvalidFile} :
        LET cs1 == Terminate(calls, parserWorker)
        IN  /\ parseGeneration' = parseGeneration + 1
            /\ parserWorker' = 0
            /\ IF fileData = InvalidFile
               THEN /\ ui' = showError(ui, "File Error")
                    /\ calls' = Append(cs1, NewCall(fileData, "rejected"))
                    /\ UNCHANGED <<currentFile, video>>
               ELSE /\ currentFile' = fileData
                    /\ ui' = showLoading([ui EXCEPT !.fileInfo = fileData],
                                         Plain("Loading video..."))
                    /\ video' = [src |-> fileData, state |-> "loading", duration |-> Num(0)]
                    /\ calls' = Append(cs1, NewCall(fileData, "loadVideo"))
    /\ UNCHANGED <<telemetryData, protobufLoaded, workerApi>>
    /\ UNCHANGED <<decVars, stripVars, boxVars, scanVars>>

\* The video element fires loadedmetadata: the player's listener runs
\* updateVideoMetadata, then every pending loadVideo promise resolves and its
\* handleFileSelected continues through showVideoSection into parseTelemetryData
\* and parseFile, in the order of the calls.  With the protobuf type cached the
\* await in parseFile resumes before any other event and the Worker and
\* FileReader are created here; otherwise the call waits for the fetch.
VideoMetadataLoaded ==
    /\ video.state = "loading"
    /\ video.src # NoFile
    /\ video' = [video EXCEPT !.state = "loaded", !.duration = VideoDuration]
    /\ LET P     == Pending
           enter == P # {} /\ currentFile # NoFile
           u1    == updateVideoMetadata(ui)
           u2    == IF P # {} THEN showVideoSection(u1) ELSE u1
       IN  /\ ui' = IF enter THEN showLoading(u2, Plain("Parsing telemetry data...")) ELSE u2
           /\ calls' = [k \in DOMAIN calls |->
                         IF k \notin P THEN calls[k]
                         ELSE IF currentFile = NoFile THEN [calls[k] EXCEPT !.pc = "noFile"]
                         ELSE LET c == [calls[k] EXCEPT !.generation = parseGeneration,
                                                        !.file = currentFile]
                              IN  IF protobufLoaded THEN StartReading(c)
                                  ELSE [c EXCEPT !.pc = "initProtobuf"]]
           /\ parserWorker' = IF enter /\ protobufLoaded /\ workerApi
                              THEN Max(P) ELSE parserWorker
    /\ UNCHANGED <<parseGeneration, currentFile, telemetryData, protobufLoaded, workerApi>>
    /\ UNCHANGED <<decVars, stripVars, boxVars, scanVars>>

\* The video element fires error: the app's onError callback (app.js:116-119),
\* then every pending loadVideo promise rejects into the catch of
\* handleFileSelected (app.js:188-192)
VideoError ==
    /\ video.state = "loading"
    /\ video' = [video EXCEPT !.state = "error"]
    /\ LET P  == Pending
           u1 == showError(hideLoading(ui), "Video Error")
       IN  /\ ui' = IF P # {}
                    THEN showError(hideProgressBar(hideLoading(u1)), "Video Loading Error")
                    ELSE u1
           /\ calls' = [k \in DOMAIN calls |->
                         IF k \in P THEN [calls[k] EXCEPT !.pc = "videoError"] ELSE calls[k]]
    /\ UNCHANGED <<parseGeneration, currentFile, telemetryData, parserWorker,
                   protobufLoaded, workerApi>>
    /\ UNCHANGED <<decVars, stripVars, boxVars, scanVars>>

\* initializeProtobuf resolves in call k (mp4-parser.js:17-27), parseFile goes on
\* to parseFileWithWorker or parseFileDirectly.  this.worker is overwritten
\* whatever it held.
ProtobufReady ==
    /\ \E k \in DOMAIN calls :
        /\ calls[k].pc = "initProtobuf"
        /\ calls' = [calls EXCEPT ![k] = StartReading(@)]
        /\ parserWorker' = IF workerApi THEN k ELSE parserWorker
    /\ protobufLoaded' = TRUE
    /\ UNCHANGED <<parseGeneration, currentFile, telemetryData, workerApi, video, ui>>
    /\ UNCHANGED <<decVars, stripVars, boxVars, scanVars>>

\* initializeProtobuf throws in call k (mp4-parser.js:28-31): parseFile rejects
ProtobufFailed ==
    /\ \E k \in DOMAIN calls :
        /\ calls[k].pc = "initProtobuf"
        /\ Continue(k, FALSE, NoResult, calls, ui)
    /\ UNCHANGED <<parseGeneration, currentFile, parserWorker, protobufLoaded, workerApi, video>>
    /\ UNCHANGED <<builds, lastBuild, lastQuery, stripVars, boxVars, scanVars>>

\* reader.onload of call k.  In parseFileWithWorker (mp4-parser.js:94-101) the
\* buffer goes to whatever this.worker holds now; with this.worker null the
\* handler throws.  In parseFileDirectly (mp4-parser.js:123-151) the file is
\* parsed at once, with its onProgress calls, and the promise settles.
ReaderLoad ==
    /\ \E k \in DOMAIN calls :
        /\ calls[k].reader = "reading"
        /\ IF workerApi
           THEN /\ calls' = IF parserWorker = 0
                            THEN [calls EXCEPT ![k].reader = "done"]
                            ELSE [calls EXCEPT ![k].reader = "done",
                                               ![parserWorker].inbox = Append(@, calls[k].file)]
                /\ UNCHANGED <<telemetryData, telemetryIndex, frameRate, duration, ui>>
           ELSE LET f     == calls[k].file
                    stale == IsStale(calls[k].generation, parseGeneration)
                    msgs  == DirectProgress(f)
                    last  == msgs[Len(msgs)]
                    u1    == IF stale THEN ui
                             ELSE updateProgressBar(showLoading(ui, Formatted(last)),
                                                    last.percentage)
                    cs1   == [calls EXCEPT ![k].reader = "done",
                                           ![k].discarded = IF stale THEN @ \cup {"progress"} ELSE @]
                IN  Continue(k, DirectResolves(f), ParseResult(f), cs1, u1)
    /\ UNCHANGED <<parseGeneration, currentFile, parserWorker, protobufLoaded, workerApi, video>>
    /\ UNCHANGED <<builds, lastBuild, lastQuery, stripVars, boxVars, scanVars>>

\* reader.onerror of call k (mp4-parser.js:103-109, 153-155)
ReaderError ==
    /\ \E k \in DOMAIN calls :
        /\ calls[k].reader = "reading"
        /\ LET cs1 == [calls EXCEPT ![k].reader = "error"]
           IN  IF workerApi
               THEN /\ parserWorker' = 0
                    /\ Continue(k, FALSE, NoResult, Terminate(cs1, parserWorker), ui)
               ELSE /\ UNCHANGED parserWorker
                    /\ Continue(k, FALSE, NoResult, cs1, ui)
    /\ UNCHANGED <<parseGeneration, currentFile, protobufLoaded, workerApi, video>>
    /\ UNCHANGED <<builds, lastBuild, lastQuery, stripVars, boxVars, scanVars>>

\* self.onmessage of worker w up to its await (mp4-worker.js:69-76).  With the
\* worker's SeiMetadata set the await resumes at once and the parse follows.
WorkerReceive ==
    /\ \E w \in DOMAIN calls :
        /\ calls[w].worker \in {"live", "running"}
        /\ calls[w].inbox # <<>>
        /\ LET f == Head(calls[w].inbox)
               first == Progress(10, "Initializing decoder...")
           IN  calls' = [calls EXCEPT
                   ![w].worker  = "running",
                   ![w].inbox   = Tail(@),
                   ![w].outbox  = IF calls[w].sei THEN (@ \o <<first>>) \o WorkerOutput(f)
                                  ELSE Append(@, first),
                   ![w].pending = IF calls[w].sei THEN @ ELSE Append(@, f)]
    /\ UNCHANGED <<parseGeneration, currentFile, telemetryData, parserWorker,
                   protobufLoaded, workerApi, video, ui>>
    /\ UNCHANGED <<decVars, stripVars, boxVars, scanVars>>

\* The worker's initializeProtobuf returns or throws for one waiting handler,
\* which then runs parseMP4 and posts the outcome (mp4-worker.js:16-27, 76-86)
WorkerParse ==
    /\ \E w \in DOMAIN calls :
        /\ calls[w].worker = "running"
        /\ \E i \in 1..Len(calls[w].pending), fetched \in BOOLEAN :
            LET f == calls[w].pending[i]
            IN  calls' = [calls EXCEPT
                    ![w].pending = SubSeq(@, 1, i - 1) \o SubSeq(@, i + 1, Len(@)),
                    ![w].sei     = @ \/ fetched,
                    ![w].outbox  = IF fetched THEN @ \o WorkerOutput(f)
                                   ELSE Append(@, ErrorMessage("Failed to load protobuf"))]
    /\ UNCHANGED <<parseGeneration, currentFile, telemetryData, parserWorker,
                   protobufLoaded, workerApi, video, ui>>
    /\ UNCHANGED <<decVars, stripVars, boxVars, scanVars>>

\* worker.onerror of worker w (mp4-parser.js:84-89): its script failed to load
\* (importScripts, mp4-worker.js:9, runs lib/dashcam-mp4.js, whose top level
\* assigns to window at dashcam-mp4.js:219).  The handler terminates whatever
\* this.worker holds now and throws when that is null.
WorkerOnError ==
    /\ \E w \in DOMAIN calls :
        /\ calls[w].worker = "live"
        /\ LET cs1 == Terminate(calls, w)
           IN  IF parserWorker = 0
               THEN /\ calls' = cs1
                    /\ UNCHANGED <<parserWorker, telemetryData, telemetryIndex,
                                   frameRate, duration, ui>>
               ELSE /\ parserWorker' = 0
                    /\ Continue(w, FALSE, NoResult, Terminate(cs1, parserWorker), ui)
    /\ UNCHANGED <<parseGeneration, currentFile, protobufLoaded, workerApi, video>>
    /\ UNCHANGED <<builds, lastBuild, lastQuery, stripVars, boxVars, scanVars>>

\* worker.onmessage of worker w for the oldest undelivered message
\* (mp4-parser.js:60-82).  onProgress is the closure of app.js:210-214.
WorkerMessage ==
    /\ \E w \in DOMAIN calls :
        /\ calls[w].outbox # <<>>
        /\ LET m   == Head(calls[w].outbox)
               cs1 == [calls EXCEPT ![w].outbox = Tail(@)]
           IN  IF m.type = "progress"
               THEN LET stale == IsStale(calls[w].generation, parseGeneration)
                    IN  /\ calls' = IF stale
                                    THEN [cs1 EXCEPT ![w].discarded = @ \cup {"progress"}]
                                    ELSE cs1
                        /\ ui' = IF stale THEN ui
                                 ELSE updateProgressBar(showLoading(ui, Formatted(m)),
                                                        m.percentage)
                        /\ UNCHANGED <<parserWorker, telemetryData, telemetryIndex,
                                       frameRate, duration>>
               ELSE IF parserWorker = 0
               THEN /\ calls' = cs1
                    /\ UNCHANGED <<parserWorker, telemetryData, telemetryIndex,
                                   frameRate, duration, ui>>
               ELSE /\ parserWorker' = 0
                    /\ Continue(w, m.type = "complete", m.data,
                                Terminate(cs1, parserWorker), ui)
    /\ UNCHANGED <<parseGeneration, currentFile, protobufLoaded, workerApi, video>>
    /\ UNCHANGED <<builds, lastBuild, lastQuery, stripVars, boxVars, scanVars>>

\* reset() (app.js:682-705); videoPlayer.reset() sets the element's src to '',
\* which starts a load that can only fail
Reset ==
    /\ currentFile' = NoFile
    /\ telemetryData' = NullData
    /\ ui' = [hideLoading(hideError(ui)) EXCEPT !.map = FALSE, !.timeline = FALSE,
                                                !.videoSection = FALSE, !.fileInfo = NoFile]
    /\ video' = [src |-> NoFile, state |-> "loading", duration |-> Num(0)]
    /\ UNCHANGED <<parseGeneration, parserWorker, protobufLoaded, workerApi, calls>>
    /\ UNCHANGED <<decVars, stripVars, boxVars, scanVars>>

\* The dismiss button or a click on the dialog's background (app.js:143-153)
DismissError ==
    /\ ui.error # "hidden"
    /\ ui' = hideError(ui)
    /\ UNCHANGED <<parseGeneration, currentFile, telemetryData, parserWorker,
                   protobufLoaded, workerApi, video, calls>>
    /\ UNCHANGED <<decVars, stripVars, boxVars, scanVars>>

Next ==
    \/ HandleFileSelected
    \/ VideoMetadataLoaded
    \/ VideoError
    \/ ProtobufReady
    \/ ProtobufFailed
    \/ ReaderLoad
    \/ ReaderError
    \/ WorkerReceive
    \/ WorkerParse
    \/ WorkerOnError
    \/ WorkerMessage
    \/ Reset
    \/ DismissError

Spec == AppInit /\ [][Next]_vars

-----------------------------------------------------------------------------
(* Claims on the application, checked under Spec *)

\* C2: the parse result stored in app.telemetryData (and handed to buildIndex)
\* was produced from the bytes of the file that is selected at the moment it is
\* stored, never from a file selected earlier.  (A result stored after reset(),
\* when no file is selected, is left aside here.)
C2_ResultFromSelectedFile ==
    \/ telemetryData.isNull
    \/ telemetryData.selected = NoFile
    \/ telemetryData.result.bytesOf = telemetryData.selected

\* A handler of call k ran in this step: a message of its worker was dispatched,
\* its FileReader finished, or its parseFile promise settled
CallbackRan(k) ==
    \/ Len(calls'[k].outbox) < Len(calls[k].outbox)
    \/ calls[k].reader = "reading" /\ calls'[k].reader \in {"done", "error"}
    \/ calls[k].pc \in {"initProtobuf", "parseFile"} /\ calls'[k].pc # calls[k].pc

\* What a stale callback must leave alone: telemetryData, the index, the
\* telemetry status, the loading message and the progress bar
Displayed == <<telemetryData, telemetryIndex, ui.status, ui.loading, ui.message,
               ui.progressHidden, ui.progressFill>>

\* C3: the generation counter never decreases, no parse carries a tag above the
\* counter, and a step in which a result, error or progress callback runs for a
\* parse whose tag differs from the counter changes neither telemetryData, nor
\* the index, nor the telemetry status, nor the progress display.
C3_StaleCallbacksDiscarded ==
    [][ /\ parseGeneration' >= parseGeneration
        /\ \A k \in DOMAIN calls : calls[k].generation <= parseGeneration
        /\ \A k \in DOMAIN calls :
              (CallbackRan(k) /\ calls[k].generation # parseGeneration)
                  => Displayed' = Displayed ]_vars

\* A parse lost its progress callbacks and its result to the generation check
\* while another call's result was stored
C3_Witness ==
    \E k, j \in DOMAIN calls :
        /\ {"progress", "result"} \subseteq calls[k].discarded
        /\ calls[j].pc = "applied"
        /\ ~telemetryData.isNull

\* An error was dropped by the generation check
C3_WitnessError ==
    \E k \in DOMAIN calls : "error" \in calls[k].discarded

\* C4: once the parse of the newest selected file has finished, with records,
\* with none, or with an error, no entry of the index was decoded from a record
\* of another file.
C4_NoEarlierFileEntries ==
    LET n == Len(calls)
    IN  ( /\ n > 0
          /\ calls[n].pc \in {"applied", "failed"}
          /\ (telemetryData.isNull \/ telemetryData.result.bytesOf = calls[n].file) )
        => \A j \in 1..Len(telemetryIndex) :
               telemetryIndex[j].value.raw.uid[1] = calls[n].file

\* C21: a telemetry parse that fails does not touch the video.  The step in
\* which parseFile rejects for the current generation leaves the video element
\* and the video section as they were, opens no error dialog, hides the
\* loading indicator and sets the telemetry status to 'Error'; the step in
\* which it resolves with zero records sets the status to 'Not available'.
C21_ParseErrorKeepsVideo ==
    [][ \A k \in DOMAIN calls :
          /\ (calls[k].pc \in {"initProtobuf", "parseFile"} /\ calls'[k].pc = "failed") =>
                /\ video' = video
                /\ ui'.videoSection = ui.videoSection
                /\ ui'.error = ui.error
                /\ ~ui'.loading
                /\ ui'.status.text = "Error"
          /\ (calls[k].pc \in {"initProtobuf", "parseFile"} /\ calls'[k].pc = "applied"
                 /\ ~telemetryData'.result.hasTelemetry) =>
                /\ ui'.status.text = "Not available" ]_vars

\* C21 witness: the parse of the file without media data has failed; the video
\* is loaded and shown, no dialog is open, the status reads 'Error'.
C21_Witness ==
    \E k \in DOMAIN calls :
        /\ calls[k].pc = "failed"
        /\ calls[k].file = "C"
        /\ currentFile = "C"
        /\ video = [src |-> "C", state |-> "loaded", duration |-> VideoDuration]
        /\ ui.videoSection
        /\ ui.error = "hidden"
        /\ ~ui.loading
        /\ ui.status.text = "Error"

\* C21 witness: a parse that found no records ended in 'Not available'.
C21_WitnessNotAvailable ==
    \E k \in DOMAIN calls :
        /\ calls[k].pc = "applied"
        /\ calls[k].file = "B"
        /\ ui.status.text = "Not available"

\* The messages seq a handler posts from some point on end its request: progress
\* messages with strictly increasing percentages, all above floor, then one
\* 'complete' or 'error' message, and nothing after it
TerminalRun(seq, floor) ==
    /\ Len(seq) >= 1
    /\ seq[Len(seq)].type \in {"complete", "error"}
    /\ \A i \in 1..(Len(seq) - 1) :
          /\ seq[i].type = "progress"
          /\ seq[i].percentage > (IF i = 1 THEN floor ELSE seq[i - 1].percentage)

C26_WitnessTwoRequests ==
    \E w \in DOMAIN calls :
        /\ Len(calls[w].outbox) > 6
        /\ calls[w].outbox[Len(calls[w].outbox)].type = "error"
        /\ calls[w].sei

\* C28: in every interleaving MP4Parser has at most one live worker, which is
\* the one this.worker holds (so that a 'complete' or 'error' message or cancel()
\* terminates it), and the buffer a call's FileReader has read is posted only to
\* the worker that same call created.
C28_OneWorkerOwnBuffer ==
    /\ [](\A k \in DOMAIN calls :
            calls[k].worker \in {"live", "running"} => parserWorker = k)
    /\ [][ \A k, w \in DOMAIN calls :
             ( /\ calls[k].reader = "reading"
               /\ calls'[k].reader = "done"
               /\ Len(calls'[w].inbox) > Len(calls[w].inbox) ) => w = k ]_vars

\* Nothing is in flight: the video element is not loading, no call awaits the
\* schema or its FileReader, no worker has a request to handle and no message
\* of a worker waits to be dispatched
NoParseRunning ==
    /\ video.state # "loading"
    /\ \A k \in DOMAIN calls :
          /\ calls[k].pc \notin {"loadVideo", "initProtobuf"}
          /\ calls[k].reader # "reading"
          /\ calls[k].outbox = <<>>
          /\ calls[k].worker \in {"live", "running"} =>
                (calls[k].inbox = <<>> /\ calls[k].pending = <<>>)

\* C30: after any sequence of selections the loading indicator shown for a
\* telemetry parse does not stay visible once no parse is running: in every
\* state in which nothing is in flight the indicator is hidden or still shows
\* the video-loading text.
C30_LoadingHiddenWhenIdle ==
    (NoParseRunning /\ ui.loading) => ui.message = Plain("Loading video...")

\* C20: a parseFile call that went to a worker and whose file the
\* single-threaded path parses is never rejected unless reading the file
\* failed: after a worker load error or a worker 'error' message it still
\* resolves.
C20_WorkerFailureFallsBack ==
    \A k \in DOMAIN calls :
        (calls[k].pc = "failed" /\ calls[k].worker # "none" /\ calls[k].reader # "error")
            => ~DirectResolves(calls[k].file)

====
